---- MODULE Spec2Model ----
(***************************************************************************)
(* Deterministic core of the proteus market simulator:                     *)
(*   - EventScheduler            (src/proteus/core/clock.py)               *)
(*   - CLOBMechanism             (src/proteus/mechanisms/clob.py)          *)
(*   - AccountingEngine          (src/proteus/core/accounting.py)          *)
(* Each component owns its variables; a component specification moves only *)
(* its own variables and leaves the others at their constructed value.     *)
(***************************************************************************)
EXTENDS Integers, Sequences, FiniteSets, TLC

(***************************************************************************)
(* Bounds of the model.                                                    *)
(***************************************************************************)
\* successful schedule() calls per scheduler run
MaxEvents == 4

\* inputs of the scheduler: timestamps, priorities, constructor start_ms
TsValues == {5, 10}
Priorities == {0, 1, 9}
StartValues == {0, 10}

\* accepted submit() calls per order book run
MaxOrders == 3

\* price 1.0 in ticks of 0.01: OrderIntent.price and Fill.price are Python floats
\* in [0,1]; the model holds them as integer numbers of ticks (0.40 is 40), and
\* sizes as integers.  NaN and the infinities, which isfinite() refuses, are not
\* among the modelled inputs.
PriceScale == 100

\* inputs of the order book: <<price, size>> of the orders of
\* test_crossed_book_clears_until_uncrossed (0.40 x 2, 0.60 x 5, 0.55 x 4), each
\* on either side; agent and order ids are numbers (agent 1 is "a1").
Quotes == {<<40, 2>>, <<60, 5>>, <<55, 4>>}
OrderTs == 1
ClearTs == 3

\* inputs of the runs with refused and ignored calls
EdgeAgents == {1, 2}
EdgePrice == 50
EdgeSize == 1

\* process_fill() calls per ledger run
MaxFills == 2

\* violations the ledger records before settlement_pnl stops being called
MaxViolations == 2

\* self._last_fill_id or "no-fills": the tag of a settlement violation when no
\* fill was given yet (fill ids are numbers, n for "f-n")
NoFillsTag == -1

\* AccountingEngine(tolerance=1e-9): amounts are whole numbers here (cash in
\* ticks, inventory in units), so a drift exceeds 1e-9 exactly when it is not 0.
Tolerance == 0

\* Bits of the significand of a float.  Python's float has 53; the ledger run
\* under float arithmetic uses a shorter significand, so that sums stop being
\* exact at 2^MantissaBits instead of 2^53.
MantissaBits == 7

\* inputs of the ledger: agents, and price (in ticks) and size of a fill
LedgerAgents == {1, 2, 3}
FillPrices == {55, 100}
FillSizes == {2}
Outcomes == {0, 55, 100}

\* draws per RNGManager between two resets
MaxDraws == 3

\* The longest event log replayed.
MaxLog == 3

\* inputs of the RNG manager: the two managers under comparison, the base seeds
\* and two of the stream names of test_rng_manager.py, and the empty name
Managers == {1, 2}
BaseSeeds == {7, 123}
StreamNames == {"latent", "latency"}

VARIABLES
    now_ms,      \* EventScheduler._clock._now_ms
    queue,       \* EventScheduler._queue: the heap's content, a set of _ScheduledEvent
    next_seq,    \* EventScheduler._next_seq
    sched_ret,   \* observation: the last scheduler call, its arguments and outcome
    admitted,    \* observation: <<ts_ms, priority>> of every admitted event, by seq_no
    poplog,      \* observation: every delivered event, in delivery order
    bids,            \* CLOBMechanism._bids: price -> FIFO of orders (by seq_no)
    asks,            \* CLOBMechanism._asks
    bid_heap,        \* CLOBMechanism._bid_heap: negated prices, least first
    ask_heap,        \* CLOBMechanism._ask_heap: prices, least first
    orders_by_id,    \* CLOBMechanism._orders_by_id: order_id -> order (by seq_no)
    orders,          \* the _BookOrder objects created so far, by seq_no
    next_order_seq,  \* CLOBMechanism._next_order_seq
    next_fill_seq,   \* CLOBMechanism._next_fill_seq
    clob_ret,        \* observation: the last order book call, its argument and outcome
    intents,         \* observation: the accepted OrderIntent of every order, by seq_no
    canceled,        \* observation: seq_no of every order whose cancel was accepted
    emitted,         \* observation: every fill clear returned, in the order of emission
    accounts,         \* AccountingEngine._accounts: agent_id -> AgentAccount
    account_keys,     \* the keys of _accounts in insertion order (the order of sum())
    violations,       \* AccountingEngine._violations
    processed_fills,  \* AccountingEngine._processed_fills
    last_fill_id,     \* AccountingEngine._last_fill_id, 0 for None
    rounding,         \* TRUE: float arithmetic (results rounded); FALSE: exact arithmetic
    acct_ret,         \* observation: the last ledger call, its argument and outcome
    fill_log,         \* observation: every fill given to the engine since construction
                      \* or the last reset, in call order
    snap,             \* the AccountingSnapshot the caller received last
    twin,             \* observation: a second engine, constructed when this one was
                      \* constructed or last reset, and given the same calls since
    rngs,             \* the RNGManager objects: [base_seed, _streams: name -> generator]
    draw_log,         \* observation, per manager: <<name, value>> of every draw since
                      \* construction or the last reset, in call order
    rng_ret,          \* observation: the last RNG manager call and its outcome
    first_epoch,      \* observation, per manager: the draws it took between its
                      \* construction and its first reset, once that reset happened
    recording,        \* whether the observer keeps first_epoch
    event_log,        \* the event log a caller holds, in the order it was written
    replay_ret        \* observation: the last replay_events call and its outcome

schedVars == <<now_ms, queue, next_seq, sched_ret, admitted, poplog>>

bookVars == <<bids, asks, bid_heap, ask_heap, orders_by_id, orders, next_order_seq,
              next_fill_seq>>

clobVars == <<bookVars, clob_ret, intents, canceled, emitted>>

acctVars == <<accounts, account_keys, violations, processed_fills, last_fill_id,
              rounding, acct_ret, fill_log, snap, twin>>

rngVars == <<rngs, draw_log, rng_ret, first_epoch, recording>>

replayVars == <<event_log, replay_ret>>

vars == <<schedVars, clobVars, acctVars, rngVars, replayVars>>

(***************************************************************************)
(* EventScheduler                                                          *)
(***************************************************************************)
\* The value pop_next returns for "no event" (Python None), as a heap item.
NoScheduled == [ts_ms |-> -1, priority |-> -1, seq_no |-> 0]

\* Mutant of ScheduledLess: priority compared before the timestamp.
ScheduledLessPriorityFirst(a, b) ==
    \/ a.priority < b.priority
    \/ a.priority = b.priority /\ a.ts_ms < b.ts_ms
    \/ a.priority = b.priority /\ a.ts_ms = b.ts_ms /\ a.seq_no < b.seq_no

\* @dataclass(order=True) _ScheduledEvent: tuple comparison of
\* (ts_ms, priority, seq_no); the event itself is compare=False.
ScheduledLess(a, b) ==
    \/ a.ts_ms < b.ts_ms
    \/ a.ts_ms = b.ts_ms /\ a.priority < b.priority
    \/ a.ts_ms = b.ts_ms /\ a.priority = b.priority /\ a.seq_no < b.seq_no

\* heapq keeps the least item (under the items' own <) at index 0.
HeapTop(q) == CHOOSE e \in q : \A o \in q : ~ScheduledLess(o, e)

\* EventScheduler.__init__(start_ms): start_ms < 0 raises, no scheduler exists.
SchedInit ==
    /\ now_ms \in StartValues
    /\ queue = {}
    /\ next_seq = 1
    /\ sched_ret = [op |-> "init", raised |-> FALSE, ts_ms |-> 0, priority |-> 0,
                    event |-> NoScheduled, pending |-> FALSE]
    /\ admitted = <<>>
    /\ poplog = <<>>

\* Mutant of ScheduleRejects: no event is refused.
ScheduleRejectsNothing(ts) == FALSE

\* Mutant of ScheduleRejects: an event at the current time is refused too.
ScheduleRejectsAtNow(ts) == ts <= now_ms

\* schedule(): "if event.ts_ms < self.now_ms: raise ValueError"
ScheduleRejects(ts) == ts < now_ms

\* Mutant of SeqAfter: a number is skipped.
SeqAfterSkipping(seq) == seq + 2

\* schedule(): "self._next_seq += 1"
SeqAfter(seq) == seq + 1

\* Mutant of Advance: the clock is moved by one millisecond too few.
AdvanceShort(now, delta) == IF delta > 0 THEN now + delta - 1 ELSE now

\* EventClock.advance(delta_ms), for delta_ms >= 0: "self._now_ms += delta_ms"
Advance(now, delta) == now + delta

\* EventScheduler.schedule(event, priority)
Schedule(ts, priority) ==
    /\ UNCHANGED <<clobVars, acctVars, rngVars, replayVars>>
    /\ ScheduleRejects(ts) \/ next_seq <= MaxEvents
    /\ IF ScheduleRejects(ts)
       THEN /\ sched_ret' = [op |-> "schedule", raised |-> TRUE, ts_ms |-> ts,
                             priority |-> priority, event |-> NoScheduled, pending |-> FALSE]
            /\ UNCHANGED <<now_ms, queue, next_seq, admitted, poplog>>
       ELSE LET item == [ts_ms |-> ts, priority |-> priority, seq_no |-> next_seq]
            IN  /\ next_seq' = SeqAfter(next_seq)
                /\ queue' = queue \cup {item}
                /\ admitted' = Append(admitted, <<ts, priority>>)
                /\ sched_ret' = [op |-> "schedule", raised |-> FALSE, ts_ms |-> ts,
                                 priority |-> priority, event |-> item, pending |-> FALSE]
                /\ UNCHANGED <<now_ms, poplog>>

\* EventScheduler.pop_next(): heappop, then EventClock.advance(next.ts_ms - now_ms),
\* which raises on a negative delta after the item has left the heap.
PopNext ==
    /\ UNCHANGED <<clobVars, acctVars, rngVars, replayVars>>
    /\ IF queue = {}
       THEN /\ sched_ret' = [op |-> "pop_next", raised |-> FALSE, ts_ms |-> 0,
                             priority |-> 0, event |-> NoScheduled, pending |-> FALSE]
            /\ UNCHANGED <<now_ms, queue, next_seq, admitted, poplog>>
       ELSE LET next == HeapTop(queue)
                delta == next.ts_ms - now_ms
            IN  /\ queue' = queue \ {next}
                /\ UNCHANGED <<next_seq, admitted>>
                /\ IF delta < 0
                   THEN /\ sched_ret' = [op |-> "pop_next", raised |-> TRUE, ts_ms |-> 0,
                                         priority |-> 0, event |-> NoScheduled, pending |-> FALSE]
                        /\ UNCHANGED <<now_ms, poplog>>
                   ELSE /\ now_ms' = Advance(now_ms, delta)
                        /\ poplog' = Append(poplog,
                                        [seq_no |-> next.seq_no, admitted_before |-> Len(admitted)])
                        /\ sched_ret' = [op |-> "pop_next", raised |-> FALSE, ts_ms |-> 0,
                                         priority |-> 0, event |-> next, pending |-> FALSE]

\* Mutant of Pending: the scheduler always reports pending events.
PendingAlways(q) == TRUE

\* bool(self._queue)
Pending(q) == q # {}

\* EventScheduler.has_pending()
HasPending ==
    /\ UNCHANGED <<clobVars, acctVars, rngVars, replayVars>>
    /\ UNCHANGED <<now_ms, queue, next_seq, admitted, poplog>>
    /\ sched_ret' = [op |-> "has_pending", raised |-> FALSE, ts_ms |-> 0, priority |-> 0,
                     event |-> NoScheduled, pending |-> Pending(queue)]

\* EventScheduler.peek_next_ts(): self._queue[0].ts_ms, or None (held as the
\* ts_ms of NoScheduled) when the queue is empty
PeekNextTs ==
    /\ UNCHANGED <<clobVars, acctVars, rngVars, replayVars>>
    /\ UNCHANGED <<now_ms, queue, next_seq, admitted, poplog>>
    /\ sched_ret' = [op |-> "peek_next_ts", raised |-> FALSE,
                     ts_ms |-> IF queue = {} THEN NoScheduled.ts_ms
                               ELSE HeapTop(queue).ts_ms,
                     priority |-> 0, event |-> NoScheduled, pending |-> FALSE]

(***************************************************************************)
(* Properties of the EventScheduler                                        *)
(***************************************************************************)
\* (ts_ms, priority, seq_no) of a precedes that of b in lexicographic order.
KeyBefore(a, b) ==
    \/ a.ts_ms < b.ts_ms
    \/ a.ts_ms = b.ts_ms /\ a.priority < b.priority
    \/ a.ts_ms = b.ts_ms /\ a.priority = b.priority /\ a.seq_no < b.seq_no

\* The admissions of test_scheduler_orders_by_ts_priority_then_seq.
OrderingScenario == << <<10, 1>>, <<10, 0>>, <<5, 9>>, <<10, 0>> >>

AllAdmittedBeforePops ==
    \A i \in 1..Len(poplog) : poplog[i].admitted_before = Len(OrderingScenario)

\* C1: every pop_next on a non-empty queue removes exactly one pending event
\* and returns it, and that event precedes every other pending event under
\* (ts_ms, priority, seq_no), so among equal (ts_ms, priority) the earlier
\* scheduled one comes first; admitting (10,1), (10,0), (5,9), (10,0) and then
\* popping four times delivers the 3rd, 2nd, 4th and 1st admitted event.
C1_PopNextReturnsMinimum ==
    /\ [][(sched_ret'.op = "pop_next" /\ queue # {}) =>
            /\ sched_ret'.event \in queue
            /\ queue' = queue \ {sched_ret'.event}
            /\ \A o \in queue' : KeyBefore(sched_ret'.event, o)]_schedVars
    /\ []((admitted = OrderingScenario /\ Len(poplog) = 4 /\ AllAdmittedBeforePops)
            => [i \in 1..4 |-> poplog[i].seq_no] = <<3, 2, 4, 1>>)

\* C1 witness: the four events of the scenario were admitted and then all four
\* delivered, the last one being the first admitted.
C1_Witness ==
    /\ admitted = OrderingScenario
    /\ Len(poplog) = 4
    /\ AllAdmittedBeforePops
    /\ sched_ret.op = "pop_next"
    /\ sched_ret.event = [ts_ms |-> 10, priority |-> 1, seq_no |-> 1]

\* C10: a schedule call with ts_ms < now_ms raises and leaves the queue, the
\* clock and the next seq_no as they were; a call with ts_ms >= now_ms (so also
\* ts_ms = now_ms) does not raise and leaves the event pending.
C10_NoSchedulingIntoThePast ==
    [][sched_ret'.op = "schedule" =>
         IF sched_ret'.ts_ms < now_ms
         THEN /\ sched_ret'.raised
              /\ queue' = queue /\ now_ms' = now_ms /\ next_seq' = next_seq
         ELSE /\ ~sched_ret'.raised
              /\ sched_ret'.event \in queue'
              /\ sched_ret'.event.ts_ms = sched_ret'.ts_ms
              /\ now_ms' = now_ms]_schedVars

\* C10 witness: after the clock advanced by a delivery, a schedule call into the
\* past was refused while another event was still pending.
C10_Witness ==
    /\ sched_ret.op = "schedule"
    /\ sched_ret.raised
    /\ sched_ret.ts_ms < now_ms
    /\ Len(poplog) > 0
    /\ queue # {}

\* ts_ms of the i-th delivered event
PoppedTs(i) == admitted[poplog[i].seq_no][1]

\* C11: no scheduler call decreases now_ms; a pop_next on a non-empty queue
\* returns an event and leaves now_ms equal to that event's ts_ms; a pop_next on
\* an empty queue returns None and leaves now_ms unchanged; the timestamps of
\* the delivered events are non-decreasing in delivery order.
C11_ClockMonotonic ==
    /\ [][/\ now_ms' >= now_ms
          /\ sched_ret'.op = "pop_next" =>
                IF queue = {}
                THEN /\ sched_ret'.event = NoScheduled
                     /\ ~sched_ret'.raised
                     /\ now_ms' = now_ms
                ELSE /\ sched_ret'.event \in queue
                     /\ ~sched_ret'.raised
                     /\ now_ms' = sched_ret'.event.ts_ms]_schedVars
    /\ [](\A i \in 1..Len(poplog), j \in 1..Len(poplog) :
              i < j => PoppedTs(i) <= PoppedTs(j))

\* C11 witness: started at 0, two deliveries moved the clock to 5 and then to 10,
\* and a later pop_next found the queue empty and left the clock at 10.
C11_Witness ==
    /\ Len(poplog) = 2
    /\ PoppedTs(1) = 5
    /\ PoppedTs(2) = 10
    /\ now_ms = 10
    /\ sched_ret.op = "pop_next"
    /\ sched_ret.event = NoScheduled
    /\ queue = {}

\* C12: the k-th admitted event is returned and stored with seq_no = k: the
\* numbers of the admitted events are 1, 2, 3, ... without gap or repeat,
\* whatever ts_ms and priority, and a refused schedule call consumes none.
C12_SequenceNumbers ==
    /\ [][sched_ret'.op = "schedule" =>
            IF sched_ret'.raised
            THEN next_seq' = next_seq /\ admitted' = admitted /\ queue' = queue
            ELSE /\ Len(admitted') = Len(admitted) + 1
                 /\ sched_ret'.event.seq_no = Len(admitted')
                 /\ sched_ret'.event \in queue'
                 /\ admitted'[Len(admitted')] = <<sched_ret'.ts_ms, sched_ret'.priority>>]_schedVars
    /\ [](/\ next_seq = Len(admitted) + 1
          /\ \A e \in queue :
                /\ e.seq_no \in 1..Len(admitted)
                /\ admitted[e.seq_no] = <<e.ts_ms, e.priority>>
          /\ \A i \in 1..Len(poplog), j \in 1..Len(poplog) :
                i # j => poplog[i].seq_no # poplog[j].seq_no)

\* C12 witness: after one delivery, the third admission (of lower priority
\* number and earlier ts_ms than the second) got seq_no 3.
C12_Witness ==
    /\ sched_ret.op = "schedule"
    /\ ~sched_ret.raised
    /\ sched_ret.event.seq_no = 3
    /\ Len(admitted) = 3
    /\ admitted[2] = <<10, 9>>
    /\ admitted[3] = <<5, 0>>
    /\ now_ms = 5
    /\ Len(poplog) = 1

\* C32: every pending event has ts_ms >= now_ms; so every pop_next on a
\* non-empty queue passes a delta >= 0 to EventClock.advance, and no pop_next
\* raises.
C32_QueueNotBeforeClock ==
    /\ [](\A e \in queue : e.ts_ms >= now_ms)
    /\ [][sched_ret'.op = "pop_next" =>
            /\ ~sched_ret'.raised
            /\ queue # {} => HeapTop(queue).ts_ms - now_ms >= 0]_schedVars

\* C32 witness: events at 5 and at 10 were delivered, the clock is at 10, an
\* event at 10 admitted before the last delivery is still pending, and another
\* event at 10 was admitted after that delivery.
C32_Witness ==
    /\ now_ms = 10
    /\ Len(poplog) > 0
    /\ \E e \in queue : e.ts_ms = now_ms /\ e.seq_no < poplog[Len(poplog)].seq_no
    /\ \E e \in queue : e.ts_ms = now_ms /\ poplog[Len(poplog)].admitted_before < e.seq_no
    /\ \E i \in 1..Len(poplog) : PoppedTs(i) = 5

\* C29: has_pending and peek_next_ts leave the queue, the clock and the next
\* seq_no unchanged and do not raise; a pop_next called right after has_pending
\* returns an event exactly when has_pending returned true; and a pop_next
\* called right after peek_next_ts returns None when peek_next_ts returned None
\* and otherwise an event whose ts_ms is the value peek_next_ts returned.
C29_SchedulerQueries ==
    [][/\ sched_ret'.op \in {"has_pending", "peek_next_ts"} =>
            /\ ~sched_ret'.raised
            /\ queue' = queue
            /\ now_ms' = now_ms
            /\ next_seq' = next_seq
       /\ (sched_ret.op = "has_pending" /\ sched_ret'.op = "pop_next") =>
            (sched_ret.pending <=> (~sched_ret'.raised /\ sched_ret'.event # NoScheduled))
       /\ (sched_ret.op = "peek_next_ts" /\ sched_ret'.op = "pop_next") =>
            /\ ~sched_ret'.raised
            /\ IF sched_ret.ts_ms = NoScheduled.ts_ms
               THEN sched_ret'.event = NoScheduled
               ELSE /\ sched_ret'.event # NoScheduled
                    /\ sched_ret'.event.ts_ms = sched_ret.ts_ms]_schedVars

\* C29 witness: peek_next_ts returned 5 on a queue that holds an event at 10
\* admitted before the event at 5.
C29_Witness ==
    /\ sched_ret.op = "peek_next_ts"
    /\ sched_ret.ts_ms = 5
    /\ \E a \in queue, b \in queue :
          a.ts_ms = 10 /\ b.ts_ms = 5 /\ a.seq_no < b.seq_no

(***************************************************************************)
(* CLOBMechanism                                                           *)
(***************************************************************************)
Min(a, b) == IF a <= b THEN a ELSE b

\* Sizes, prices and balances are Python floats: the arithmetic below is
\* shared by the book and the ledger.
Abs(x) == IF x < 0 THEN -x ELSE x

\* The spacing of the floats around a magnitude n >= 0.
RECURSIVE Ulp(_)
Ulp(n) == IF n < 2 ^ MantissaBits THEN 1 ELSE 2 * Ulp(n \div 2)

\* The float nearest to x, ties to the even significand (IEEE 754 default).
RoundNearestEven(x) ==
    LET a == Abs(x)
        u == Ulp(a)
        q == a \div u
        r == a % u
        m == IF 2 * r < u THEN q
             ELSE IF 2 * r > u THEN q + 1
             ELSE IF q % 2 = 0 THEN q ELSE q + 1
    IN  IF x < 0 THEN -(m * u) ELSE m * u

\* The result of one arithmetic operation whose exact value is x.
Fl(x) == IF rounding THEN RoundNearestEven(x) ELSE x

\* A Python dict as a function on its keys: del d[k] / d.pop(k, None), d[k] = v.
DictDel(d, k) == [x \in DOMAIN d \ {k} |-> d[x]]

DictSet(d, k, v) == [x \in DOMAIN d \cup {k} |-> IF x = k THEN v ELSE d[x]]

\* heapq.heappush / heap[0] / heapq.heappop on a list of numbers: the heap is
\* held least key first, so heap[0] is h[1] and heappop leaves Tail(h).
HeapPush(h, k) ==
    LET n == Cardinality({i \in 1..Len(h) : h[i] <= k})
    IN  SubSeq(h, 1, n) \o <<k>> \o SubSeq(h, n + 1, Len(h))

\* Mutant of HeapKey: bid prices pushed without the negation.
HeapKeyNotNegated(price, is_bid) == price

\* "-order.price" pushed on the bid heap, "-heap[0]" read back; ask prices as is.
HeapKey(price, is_bid) == IF is_bid THEN -price ELSE price

\* Mutant of LevelAppend: the new order jumps the queue of its level.
LevelAppendLeft(level, seq) == <<seq>> \o level

\* level.append(order)
LevelAppend(level, seq) == Append(level, seq)

\* Mutant of ValidateOrderIntent: the size check is left out.
ValidateOrderIntentNoSize(intent) ==
    IF intent.ts_ms < 0 THEN "ts_ms must be non-negative"
    ELSE IF intent.price < 0 \/ intent.price > PriceScale
    THEN "price must be finite and in [0,1]"
    ELSE ""

\* _validate_order_intent: the message of the ValueError raised, "" for none
ValidateOrderIntent(intent) ==
    IF intent.ts_ms < 0 THEN "ts_ms must be non-negative"
    ELSE IF intent.price < 0 \/ intent.price > PriceScale
    THEN "price must be finite and in [0,1]"
    ELSE IF intent.size <= 0 THEN "size must be finite and > 0"
    ELSE ""

\* Mutant of AfterCancel: the cancel is dropped.
AfterCancelIgnored(order) == order

\* cancel(): order.remaining_size = 0.0
AfterCancel(order) == [order EXCEPT !.remaining_size = 0]

\* Mutant of NoCross: clearing also stops at equal prices.
NoCrossOrEqual(bid, ask) == bid.price <= ask.price

\* clear(): "if best_bid.price < best_ask.price: break"
NoCross(bid, ask) == bid.price < ask.price

\* Mutant of MatchSize: one unit is matched at a time.
MatchSizeOfUnit(bid, ask) == 1

\* Mutant of MatchSize: the whole bid is filled.
MatchSizeOfBid(bid, ask) == bid.remaining_size

\* clear(): size = min(best_bid.remaining_size, best_ask.remaining_size)
MatchSize(bid, ask) == Min(bid.remaining_size, ask.remaining_size)

\* Mutant of ExecutionPrice: the newer order sets the price.
ExecutionPriceOfNewer(bid, ask) == IF bid.seq_no > ask.seq_no THEN bid.price ELSE ask.price

\* _execution_price: the older order is the maker
ExecutionPrice(bid, ask) == IF bid.seq_no < ask.seq_no THEN bid.price ELSE ask.price

\* Mutant of AfterMatch: a matched order is left with nothing, whatever the
\* size of the fill.
AfterMatchDepleted(order, size) == [order EXCEPT !.remaining_size = 0]

\* clear(): "best_bid.remaining_size -= size", "best_ask.remaining_size -= size",
\* one float subtraction each.
AfterMatch(order, size) == [order EXCEPT !.remaining_size = Fl(@ - size)]

\* Mutant of FillSeqAfter: the counter is not moved.
FillSeqAfterSame(n) == n

\* clear(): "self._next_fill_seq += 1"
FillSeqAfter(n) == n + 1

\* Mutant of CanceledIn: every order of the level of the canceled order is
\* canceled with it.
CanceledLevelIn(store, seq) ==
    [k \in DOMAIN store |->
        IF store[k].side = store[seq].side /\ store[k].price = store[seq].price
        THEN AfterCancel(store[k]) ELSE store[k]]

\* cancel(): the orders after "order.remaining_size = 0.0" on one of them
CanceledIn(store, seq) == [store EXCEPT ![seq] = AfterCancel(@)]

\* The book as one value, for the helpers that clear() calls.
Book ==
    [bids |-> bids, asks |-> asks, bid_heap |-> bid_heap, ask_heap |-> ask_heap,
     orders_by_id |-> orders_by_id, orders |-> orders]

LevelsOf(b, is_bid) == IF is_bid THEN b.bids ELSE b.asks

HeapOf(b, is_bid) == IF is_bid THEN b.bid_heap ELSE b.ask_heap

WithLevels(b, is_bid, levels) ==
    IF is_bid THEN [b EXCEPT !.bids = levels] ELSE [b EXCEPT !.asks = levels]

WithHeap(b, is_bid, heap) ==
    IF is_bid THEN [b EXCEPT !.bid_heap = heap] ELSE [b EXCEPT !.ask_heap = heap]

\* _best_order, inner loop: "while level and level[0].remaining_size <= 0.0:
\* head = level.popleft(); self._orders_by_id.pop(head.order_id, None)"
RECURSIVE PruneHead(_, _, _)
PruneHead(b, is_bid, price_key) ==
    LET level == LevelsOf(b, is_bid)[price_key]
    IN  IF level # <<>> /\ b.orders[Head(level)].remaining_size <= 0
        THEN PruneHead(
                 [WithLevels(b, is_bid, DictSet(LevelsOf(b, is_bid), price_key, Tail(level)))
                     EXCEPT !.orders_by_id = DictDel(@, b.orders[Head(level)].order_id)],
                 is_bid, price_key)
        ELSE b

\* _best_order: the head of the best non-empty level after lazy pruning, as
\* [book, order], order being a seq_no or 0 for None.
RECURSIVE BestOrder(_, _)
BestOrder(b, is_bid) ==
    LET heap == HeapOf(b, is_bid)
        levels == LevelsOf(b, is_bid)
    IN  IF heap = <<>>
        THEN [book |-> b, order |-> 0]
        ELSE LET price_key == HeapKey(heap[1], is_bid)
             IN  IF price_key \notin DOMAIN levels \/ levels[price_key] = <<>>
                 THEN BestOrder(
                          WithLevels(WithHeap(b, is_bid, Tail(heap)), is_bid,
                                     DictDel(levels, price_key)),
                          is_bid)
                 ELSE LET p == PruneHead(b, is_bid, price_key)
                      IN  IF LevelsOf(p, is_bid)[price_key] = <<>>
                          THEN BestOrder(
                                   WithLevels(WithHeap(p, is_bid, Tail(heap)), is_bid,
                                              DictDel(LevelsOf(p, is_bid), price_key)),
                                   is_bid)
                          ELSE [book |-> p, order |-> Head(LevelsOf(p, is_bid)[price_key])]

\* _consume_depleted
ConsumeDepleted(b, seq) ==
    IF b.orders[seq].remaining_size > 0
    THEN b
    ELSE [b EXCEPT !.orders_by_id = DictDel(@, b.orders[seq].order_id)]

\* Fill(fill_id=f"fill-{n}", ...): the id is held as its number n.  bid_seq,
\* ask_seq and before (the orders as they were when the match was made) are
\* observations, not fields of Fill.
MakeFill(n, ts, bid, ask, before) ==
    [fill_id |-> n, ts_ms |-> ts, buy_agent_id |-> bid.agent_id,
     sell_agent_id |-> ask.agent_id, price |-> ExecutionPrice(bid, ask),
     size |-> MatchSize(bid, ask),
     bid_seq |-> bid.seq_no, ask_seq |-> ask.seq_no, before |-> before]

\* Mutant of ClearLoop: the loop is left after the first match.
ClearLoopOnce(b, fills, next_fill, ts) ==
    LET rb == BestOrder(b, TRUE)
        ra == BestOrder(rb.book, FALSE)
        b2 == ra.book
        done == [book |-> b2, fills |-> fills, next_fill_seq |-> next_fill, iterations |-> 1]
    IN  IF rb.order = 0 \/ ra.order = 0
        THEN done
        ELSE LET best_bid == b2.orders[rb.order]
                 best_ask == b2.orders[ra.order]
                 size == MatchSize(best_bid, best_ask)
             IN  IF NoCross(best_bid, best_ask) \/ size <= 0
                 THEN done
                 ELSE LET fill == MakeFill(next_fill, ts, best_bid, best_ask, b2.orders)
                          b3 == [b2 EXCEPT
                                   !.orders[rb.order] = AfterMatch(@, size),
                                   !.orders[ra.order] = AfterMatch(@, size)]
                      IN  [book |-> ConsumeDepleted(ConsumeDepleted(b3, rb.order), ra.order),
                           fills |-> Append(fills, fill),
                           next_fill_seq |-> FillSeqAfter(next_fill),
                           iterations |-> 1]

\* clear(), the "while True" loop, as [book, fills, next_fill_seq, iterations],
\* iterations being the number of times the loop body was entered.
RECURSIVE ClearLoop(_, _, _, _)
ClearLoop(b, fills, next_fill, ts) ==
    LET rb == BestOrder(b, TRUE)
        ra == BestOrder(rb.book, FALSE)
        b2 == ra.book
        done == [book |-> b2, fills |-> fills, next_fill_seq |-> next_fill, iterations |-> 1]
    IN  IF rb.order = 0 \/ ra.order = 0
        THEN done
        ELSE LET best_bid == b2.orders[rb.order]
                 best_ask == b2.orders[ra.order]
                 size == MatchSize(best_bid, best_ask)
             IN  IF NoCross(best_bid, best_ask)
                 THEN done
                 ELSE IF size <= 0
                 THEN [ClearLoop(ConsumeDepleted(ConsumeDepleted(b2, rb.order), ra.order),
                                 fills, next_fill, ts)
                          EXCEPT !.iterations = @ + 1]
                 ELSE LET fill == MakeFill(next_fill, ts, best_bid, best_ask, b2.orders)
                          b3 == [b2 EXCEPT
                                   !.orders[rb.order] = AfterMatch(@, size),
                                   !.orders[ra.order] = AfterMatch(@, size)]
                      IN  [ClearLoop(ConsumeDepleted(ConsumeDepleted(b3, rb.order), ra.order),
                                     Append(fills, fill), FillSeqAfter(next_fill), ts)
                              EXCEPT !.iterations = @ + 1]

\* The observation of one call: the order id and the agent of the intent it was
\* given (0 for clear), the message of the ValueError it raised ("" for none),
\* whether a submit or a cancel took effect, and the fills clear returned.
ClobRet(op, order_id, agent_id, error, accepted, fills) ==
    [op |-> op, order_id |-> order_id, agent_id |-> agent_id, error |-> error,
     accepted |-> accepted, fills |-> fills]

\* CLOBMechanism.__init__
ClobInit ==
    /\ bids = <<>>
    /\ asks = <<>>
    /\ bid_heap = <<>>
    /\ ask_heap = <<>>
    /\ orders_by_id = <<>>
    /\ orders = <<>>
    /\ next_order_seq = 1
    /\ next_fill_seq = 1
    /\ clob_ret = ClobRet("init", 0, 0, "", FALSE, <<>>)
    /\ intents = <<>>
    /\ canceled = {}
    /\ emitted = <<>>

\* Mutant of DuplicateOrderId: only an id held by the same agent is a duplicate.
DuplicateOrderIdOfAgent(intent) ==
    /\ intent.intent_id \in DOMAIN orders_by_id
    /\ orders[orders_by_id[intent.intent_id]].agent_id = intent.agent_id

\* submit(): "if intent.intent_id in self._orders_by_id"
DuplicateOrderId(intent) == intent.intent_id \in DOMAIN orders_by_id

\* CLOBMechanism.submit(intent)
Submit(intent) ==
    /\ UNCHANGED <<schedVars, acctVars, rngVars, replayVars>>
    /\ IF ValidateOrderIntent(intent) # ""
       THEN /\ clob_ret' = ClobRet("submit", intent.intent_id, intent.agent_id,
                                    ValidateOrderIntent(intent), FALSE, <<>>)
            /\ UNCHANGED <<bookVars, intents, canceled, emitted>>
       ELSE IF DuplicateOrderId(intent)
       THEN /\ clob_ret' = ClobRet("submit", intent.intent_id, intent.agent_id,
                                    "duplicate order id", FALSE, <<>>)
            /\ UNCHANGED <<bookVars, intents, canceled, emitted>>
       ELSE LET order == [order_id |-> intent.intent_id, agent_id |-> intent.agent_id,
                          side |-> intent.side, price |-> intent.price,
                          remaining_size |-> intent.size, ts_ms |-> intent.ts_ms,
                          seq_no |-> next_order_seq]
                is_bid == order.side = "BUY"
                levels == IF is_bid THEN bids ELSE asks
                level == IF order.price \in DOMAIN levels THEN levels[order.price] ELSE <<>>
                new_levels == DictSet(levels, order.price, LevelAppend(level, order.seq_no))
                heap == IF is_bid THEN bid_heap ELSE ask_heap
                new_heap == IF Len(level) = 0
                            THEN HeapPush(heap, HeapKey(order.price, is_bid))
                            ELSE heap
            IN  /\ next_order_seq <= MaxOrders
                /\ next_order_seq' = next_order_seq + 1
                /\ orders' = Append(orders, order)
                /\ orders_by_id' = DictSet(orders_by_id, order.order_id, order.seq_no)
                /\ IF is_bid
                   THEN bids' = new_levels /\ bid_heap' = new_heap /\ UNCHANGED <<asks, ask_heap>>
                   ELSE asks' = new_levels /\ ask_heap' = new_heap /\ UNCHANGED <<bids, bid_heap>>
                /\ intents' = Append(intents, intent)
                /\ clob_ret' = ClobRet("submit", intent.intent_id, intent.agent_id, "", TRUE, <<>>)
                /\ UNCHANGED <<next_fill_seq, canceled, emitted>>

\* Mutant of NotOwner: any agent may cancel any order.
NotOwnerIgnored(order, intent) == FALSE

\* cancel(): "if order.agent_id != intent.agent_id: return"
NotOwner(order, intent) == order.agent_id # intent.agent_id

\* CLOBMechanism.cancel(intent)
Cancel(intent) ==
    /\ UNCHANGED <<schedVars, acctVars, rngVars, replayVars>>
    /\ IF intent.order_id \notin DOMAIN orders_by_id
       THEN /\ clob_ret' = ClobRet("cancel", intent.order_id, intent.agent_id, "", FALSE, <<>>)
            /\ UNCHANGED <<bookVars, intents, canceled, emitted>>
       ELSE LET seq == orders_by_id[intent.order_id]
            IN  IF NotOwner(orders[seq], intent)
                THEN /\ clob_ret' = ClobRet("cancel", intent.order_id, intent.agent_id, "", FALSE, <<>>)
                     /\ UNCHANGED <<bookVars, intents, canceled, emitted>>
                ELSE /\ orders' = CanceledIn(orders, seq)
                     /\ canceled' = canceled \cup {seq}
                     /\ clob_ret' = ClobRet("cancel", intent.order_id, intent.agent_id, "", TRUE, <<>>)
                     /\ UNCHANGED <<bids, asks, bid_heap, ask_heap, orders_by_id,
                                    next_order_seq, next_fill_seq, intents, emitted>>

\* A returned fill as the log of emitted fills keeps it: the fields of Fill and
\* the seq_nos of the two matched orders.
Emitted(fill) ==
    [fill_id |-> fill.fill_id, ts_ms |-> fill.ts_ms, buy_agent_id |-> fill.buy_agent_id,
     sell_agent_id |-> fill.sell_agent_id, price |-> fill.price, size |-> fill.size,
     bid_seq |-> fill.bid_seq, ask_seq |-> fill.ask_seq]

\* CLOBMechanism.clear(ts_ms)
Clear(ts) ==
    /\ UNCHANGED <<schedVars, acctVars, rngVars, replayVars>>
    /\ IF ts < 0
       THEN /\ clob_ret' = ClobRet("clear", 0, 0, "ts_ms must be non-negative", FALSE, <<>>)
            /\ UNCHANGED <<bookVars, intents, canceled, emitted>>
       ELSE LET r == ClearLoop(Book, <<>>, next_fill_seq, ts)
            IN  /\ bids' = r.book.bids
                /\ asks' = r.book.asks
                /\ bid_heap' = r.book.bid_heap
                /\ ask_heap' = r.book.ask_heap
                /\ orders_by_id' = r.book.orders_by_id
                /\ orders' = r.book.orders
                /\ next_fill_seq' = r.next_fill_seq
                /\ clob_ret' = ClobRet("clear", 0, 0, "", FALSE, r.fills)
                /\ emitted' = emitted \o [i \in 1..Len(r.fills) |-> Emitted(r.fills[i])]
                /\ UNCHANGED <<next_order_seq, intents, canceled>>

\* The order ids used so far and the next unused one (ids are interchangeable,
\* so new ids are taken in order).
UsedIds == {orders[s].order_id : s \in DOMAIN orders}

FreshId == Cardinality(UsedIds) + 1

KnownIds == UsedIds \cup {FreshId}

Intent(id, agent, side, price, size) ==
    [intent_id |-> id, agent_id |-> agent, ts_ms |-> OrderTs, side |-> side,
     price |-> price, size |-> size]

\* Every order under a new id and from an agent of its own, as in the tests.
BookIntents ==
    {Intent(FreshId, next_order_seq, side, q[1], q[2]) : side \in {"BUY", "SELL"}, q \in Quotes}

\* Cancels by the owner of an order the book holds.
OwnerCancels ==
    {[agent_id |-> orders[orders_by_id[id]].agent_id, order_id |-> id] :
        id \in DOMAIN orders_by_id}

\* Intents that pass validation, under a new id or one used before; agent 1
\* buys and agent 2 sells.
EdgeIntents ==
    {Intent(id, IF side = "BUY" THEN 1 ELSE 2, side, EdgePrice, EdgeSize) :
        id \in KnownIds, side \in {"BUY", "SELL"}}

\* One refused intent for each check of _validate_order_intent.
InvalidIntents ==
    LET ok == Intent(FreshId, 1, "BUY", EdgePrice, EdgeSize)
    IN  {[ok EXCEPT !.ts_ms = -1], [ok EXCEPT !.price = 150], [ok EXCEPT !.size = 0]}

\* Cancels of any order id by any agent.
EdgeCancels == [agent_id : EdgeAgents, order_id : KnownIds]

(***************************************************************************)
(* AccountingEngine                                                        *)
(***************************************************************************)
\* sum(account.<field> for account in self._accounts.values()): left to right
\* in insertion order, starting from 0.
RECURSIVE SumOver(_, _, _)
SumOver(accts, keys, field) ==
    IF keys = <<>> THEN 0
    ELSE Fl(SumOver(accts, SubSeq(keys, 1, Len(keys) - 1), field)
            + accts[keys[Len(keys)]][field])

\* _total_cash / _total_inventory
TotalCash(accts, keys) == SumOver(accts, keys, "cash")

TotalInventory(accts, keys) == SumOver(accts, keys, "inventory")

\* Mutant of ValidateFill: a size of 0 passes.
ValidateFillZeroSize(fill) ==
    IF fill.price < 0 \/ fill.price > PriceScale THEN "invalid_fill_price"
    ELSE IF fill.size < 0 THEN "invalid_fill_size"
    ELSE ""

\* _validate_fill: the code of the violation recorded, "" for a valid fill
ValidateFill(fill) ==
    IF fill.price < 0 \/ fill.price > PriceScale THEN "invalid_fill_price"
    ELSE IF fill.size <= 0 THEN "invalid_fill_size"
    ELSE ""

Violation(event_id, code) == [event_id |-> event_id, code |-> code]

\* _check_zero_sum_transfer / _check_conservation: the violations to append
CheckDrift(event_id, drift, code) ==
    IF Abs(drift) > Tolerance THEN <<Violation(event_id, code)>> ELSE <<>>

\* self._accounts.setdefault(agent_id, AgentAccount())
SetDefault(st, agent) ==
    IF agent \in DOMAIN st.accounts THEN st
    ELSE [accounts |-> DictSet(st.accounts, agent, [cash |-> 0, inventory |-> 0]),
          keys |-> Append(st.keys, agent)]

\* Mutant of AddTo: the balance is overwritten with the delta.
AddToReplacing(accts, agent, field, delta) ==
    [accts EXCEPT ![agent][field] = Fl(delta)]

\* account.<field> += delta
AddTo(accts, agent, field, delta) ==
    [accts EXCEPT ![agent][field] = Fl(@ + delta)]

\* process_fill, lines 79-94: the accounts (and their insertion order) after a
\* valid fill was applied
Applied(accts, keys, fill) ==
    LET st == SetDefault(SetDefault([accounts |-> accts, keys |-> keys],
                                    fill.buy_agent_id), fill.sell_agent_id)
        notional == Fl(fill.price * fill.size)
        a1 == AddTo(st.accounts, fill.buy_agent_id, "cash", -notional)
        a2 == AddTo(a1, fill.sell_agent_id, "cash", notional)
        a3 == AddTo(a2, fill.buy_agent_id, "inventory", fill.size)
        a4 == AddTo(a3, fill.sell_agent_id, "inventory", -fill.size)
    IN  [accounts |-> a4, keys |-> st.keys]

\* The observation of one call: its name, the fill or outcome it was given,
\* whether it raised ValueError, and the dict settlement_pnl returned.
AcctRet(op, fill, outcome, raised, pnl) ==
    [op |-> op, fill |-> fill, outcome |-> outcome, raised |-> raised, pnl |-> pnl]

NoFill == [fill_id |-> 0, buy_agent_id |-> 0, sell_agent_id |-> 0, price |-> 0, size |-> 0]

\* AccountingEngine(): the fields after construction
FreshEngine ==
    [accounts |-> <<>>, keys |-> <<>>, violations |-> <<>>,
     processed_fills |-> 0, last_fill_id |-> 0]

\* No snapshot was taken yet.
NoSnapshot == [taken |-> FALSE]

\* AccountingEngine.__init__
AcctInit ==
    /\ accounts = <<>>
    /\ account_keys = <<>>
    /\ violations = <<>>
    /\ processed_fills = 0
    /\ last_fill_id = 0
    /\ rounding \in BOOLEAN
    /\ acct_ret = AcctRet("init", NoFill, 0, FALSE, <<>>)
    /\ fill_log = <<>>
    /\ snap = NoSnapshot
    /\ twin = FreshEngine

\* The fields of the engine, as one value.
Engine ==
    [accounts |-> accounts, keys |-> account_keys, violations |-> violations,
     processed_fills |-> processed_fills, last_fill_id |-> last_fill_id]

\* The engine's fields become those of e.
SetEngine(e) ==
    /\ accounts' = e.accounts
    /\ account_keys' = e.keys
    /\ violations' = e.violations
    /\ processed_fills' = e.processed_fills
    /\ last_fill_id' = e.last_fill_id

\* Mutant of Recorded: the list is replaced by the new entries.
RecordedAlone(log, entries) == entries

\* self._violations.append(...), for the entries of one call in their order
Recorded(log, entries) == log \o entries

\* The violations _check_zero_sum_transfer and _check_conservation append for a
\* valid fill applied to the accounts accts (lines 79-103).
DriftViolations(accts, keys, fill) ==
    LET st == SetDefault(SetDefault([accounts |-> accts, keys |-> keys],
                                    fill.buy_agent_id), fill.sell_agent_id)
        prior_total_cash == TotalCash(st.accounts, st.keys)
        prior_total_inventory == TotalInventory(st.accounts, st.keys)
        notional == Fl(fill.price * fill.size)
        buyer_cash_delta == -notional
        seller_cash_delta == notional
        buyer_inventory_delta == fill.size
        seller_inventory_delta == -fill.size
        after == Applied(accts, keys, fill)
    IN  CheckDrift(fill.fill_id, Fl(buyer_cash_delta + seller_cash_delta),
                   "cash_transfer_not_zero_sum")
        \o CheckDrift(fill.fill_id, Fl(buyer_inventory_delta + seller_inventory_delta),
                      "inventory_transfer_not_zero_sum")
        \o CheckDrift(fill.fill_id,
                      Fl(TotalCash(after.accounts, after.keys) - prior_total_cash),
                      "cash_conservation_violation")
        \o CheckDrift(fill.fill_id,
                      Fl(TotalInventory(after.accounts, after.keys) - prior_total_inventory),
                      "inventory_conservation_violation")

\* AccountingEngine.process_fill(fill): the engine afterwards
AfterProcessFill(e, fill) ==
    IF ValidateFill(fill) # ""
    THEN [e EXCEPT !.last_fill_id = fill.fill_id,
                   !.violations = Recorded(@, <<Violation(fill.fill_id, ValidateFill(fill))>>)]
    ELSE LET after == Applied(e.accounts, e.keys, fill)
         IN  [accounts |-> after.accounts,
              keys |-> after.keys,
              violations |-> Recorded(e.violations, DriftViolations(e.accounts, e.keys, fill)),
              processed_fills |-> e.processed_fills + 1,
              last_fill_id |-> fill.fill_id]

\* AccountingEngine.process_fill(fill)
ProcessFill(fill) ==
    /\ UNCHANGED <<schedVars, clobVars, rngVars, replayVars, rounding, snap>>
    /\ Len(fill_log) < MaxFills
    /\ acct_ret' = AcctRet("process_fill", fill, 0, FALSE, <<>>)
    /\ fill_log' = Append(fill_log, fill)
    /\ SetEngine(AfterProcessFill(Engine, fill))
    /\ twin' = AfterProcessFill(twin, fill)

\* AgentAccount.equity(mark_price): self.cash + (self.inventory * mark_price)
Equity(account, mark_price) == Fl(account.cash + Fl(account.inventory * mark_price))

\* AccountingEngine.mark_to_market(mark_price), for a finite mark_price
MarkToMarket(accts, mark_price) == [a \in DOMAIN accts |-> Equity(accts[a], mark_price)]

\* sum(pnl.values()): left to right in the insertion order of the dict
RECURSIVE SumValues(_, _)
SumValues(pnl, keys) ==
    IF keys = <<>> THEN 0
    ELSE Fl(SumValues(pnl, SubSeq(keys, 1, Len(keys) - 1)) + pnl[keys[Len(keys)]])

\* settlement_pnl, lines 130-140: the violations appended for a valid outcome
SettlementViolations(e, outcome) ==
    LET pnl == MarkToMarket(e.accounts, outcome)
        total == SumValues(pnl, e.keys)
    IN  CheckDrift(IF e.last_fill_id = 0 THEN NoFillsTag ELSE e.last_fill_id,
                   total, "pnl_non_zero_sum")

\* AccountingEngine.settlement_pnl(outcome)
SettlementPnl(outcome) ==
    /\ UNCHANGED <<schedVars, clobVars, rngVars, replayVars, rounding, snap>>
    /\ UNCHANGED <<accounts, account_keys, processed_fills, last_fill_id, fill_log>>
    /\ Len(violations) < MaxViolations
    /\ IF outcome < 0 \/ outcome > PriceScale
       THEN /\ acct_ret' = AcctRet("settlement_pnl", NoFill, outcome, TRUE, <<>>)
            /\ UNCHANGED <<violations, twin>>
       ELSE /\ acct_ret' = AcctRet("settlement_pnl", NoFill, outcome, FALSE,
                                   MarkToMarket(accounts, outcome))
            /\ violations' = Recorded(violations, SettlementViolations(Engine, outcome))
            /\ twin' = [twin EXCEPT
                          !.violations = Recorded(@, SettlementViolations(twin, outcome))]

LedgerFill(id, buyer, seller, price, size) ==
    [fill_id |-> id, buy_agent_id |-> buyer, sell_agent_id |-> seller,
     price |-> price, size |-> size]

\* Fills with price in [0,1] and size > 0, under the ids 1, 2, 3, ...
ValidFills ==
    {LedgerFill(Len(fill_log) + 1, b, a, p, z) :
        b \in LedgerAgents, a \in LedgerAgents, p \in FillPrices, z \in FillSizes}

\* One fill for each check of _validate_fill, and one that fails both.
InvalidFills ==
    {LedgerFill(Len(fill_log) + 1, 1, 2, 150, 2), LedgerFill(Len(fill_log) + 1, 1, 2, 55, 0),
     LedgerFill(Len(fill_log) + 1, 1, 2, 150, 0)}

\* Mutant of AccountsCopy: the snapshot holds the engine's own dict.
AccountsShared(accts, keys) == [alias |-> TRUE, value |-> [accounts |-> accts, keys |-> keys]]

\* snapshot, lines 148-151: a new dict of new AgentAccount objects holding the
\* balances of the call's moment.  A field of a snapshot is held as the value
\* it was built from and whether it is the engine's own object (alias), in
\* which case reading it yields what the engine holds at the time of reading.
AccountsCopy(accts, keys) == [alias |-> FALSE, value |-> [accounts |-> accts, keys |-> keys]]

\* snapshot, line 153: list(self._violations), a new list of the same entries
ViolationsCopy(log) == [alias |-> FALSE, value |-> log]

\* AccountingEngine.snapshot(): the AccountingSnapshot built from the engine e
TakeSnapshot(e) ==
    [taken |-> TRUE,
     accounts |-> AccountsCopy(e.accounts, e.keys),
     total_cash |-> TotalCash(e.accounts, e.keys),
     total_inventory |-> TotalInventory(e.accounts, e.keys),
     violations |-> ViolationsCopy(e.violations),
     processed_fills |-> e.processed_fills]

\* Reading a field of a snapshot: the engine's object when the field is an
\* alias of it, the copy otherwise.
Held(field, live) == IF field.alias THEN live ELSE field.value

\* What the caller reads in the snapshot it holds.
SnapView ==
    IF ~snap.taken THEN snap
    ELSE [taken |-> TRUE,
          accounts |-> Held(snap.accounts, [accounts |-> accounts, keys |-> account_keys]),
          total_cash |-> snap.total_cash,
          total_inventory |-> snap.total_inventory,
          violations |-> Held(snap.violations, violations),
          processed_fills |-> snap.processed_fills]

\* AccountingEngine.snapshot()
Snapshot ==
    /\ UNCHANGED <<schedVars, clobVars, rngVars, replayVars, rounding>>
    /\ UNCHANGED <<accounts, account_keys, violations, processed_fills, last_fill_id, fill_log>>
    /\ snap' = TakeSnapshot(Engine)
    /\ acct_ret' = AcctRet("snapshot", NoFill, 0, FALSE, <<>>)
    /\ UNCHANGED twin

\* AccountingEngine.process_fills(fills): the engine after the loop
RECURSIVE AfterProcessFills(_, _)
AfterProcessFills(e, fills) ==
    IF fills = <<>> THEN e
    ELSE AfterProcessFill(AfterProcessFills(e, SubSeq(fills, 1, Len(fills) - 1)),
                          fills[Len(fills)])

\* AccountingEngine.process_fills(fills)
ProcessFills(fills) ==
    /\ UNCHANGED <<schedVars, clobVars, rngVars, replayVars, rounding>>
    /\ Len(fill_log) + Len(fills) <= MaxFills
    /\ fill_log' = fill_log \o fills
    /\ SetEngine(AfterProcessFills(Engine, fills))
    /\ snap' = TakeSnapshot(AfterProcessFills(Engine, fills))
    /\ twin' = AfterProcessFills(twin, fills)
    /\ acct_ret' = AcctRet("process_fills", NoFill, 0, FALSE, <<>>)

\* AccountingEngine.mark_to_market(mark_price), for a finite mark_price
MarkToMarketCall(mark_price) ==
    /\ UNCHANGED <<schedVars, clobVars, rngVars, replayVars, rounding, snap>>
    /\ UNCHANGED <<accounts, account_keys, violations, processed_fills, last_fill_id, fill_log>>
    /\ UNCHANGED twin
    /\ acct_ret' = AcctRet("mark_to_market", NoFill, mark_price, FALSE,
                           MarkToMarket(accounts, mark_price))

\* Mutant of AfterReset: the fill counter survives the reset.
AfterResetKeepingCount(e) ==
    [accounts |-> <<>>, keys |-> <<>>, violations |-> <<>>,
     processed_fills |-> e.processed_fills, last_fill_id |-> 0]

\* AccountingEngine.reset(): the engine afterwards
AfterReset(e) ==
    [accounts |-> <<>>, keys |-> <<>>, violations |-> <<>>,
     processed_fills |-> 0, last_fill_id |-> 0]

\* AccountingEngine.reset()
Reset ==
    /\ UNCHANGED <<schedVars, clobVars, rngVars, replayVars, rounding, snap>>
    /\ SetEngine(AfterReset(Engine))
    /\ twin' = FreshEngine
    /\ fill_log' = <<>>
    /\ acct_ret' = AcctRet("reset", NoFill, 0, FALSE, <<>>)

\* The fills of the full ledger run: two valid fills whose sum of cash is not
\* representable at MantissaBits bits, and one fill with an invalid price.
FewFills ==
    {LedgerFill(Len(fill_log) + 1, 1, 2, 55, 2), LedgerFill(Len(fill_log) + 1, 1, 3, 100, 2),
     LedgerFill(Len(fill_log) + 1, 1, 2, 150, 2)}

\* The lists given to process_fills: no fill, or two fills under successive ids.
FillLists ==
    {<<>>} \cup {<<f, [g EXCEPT !.fill_id = f.fill_id + 1]>> : f \in FewFills, g \in FewFills}

\* The agents, prices and sizes of the runs that post the book's fills to the
\* ledger: an agent may quote both sides, and the larger size has more
\* significant bits than a float keeps once the smaller is taken from it.
TradeAgents == {1, 2}
TradeQuotes == {<<55, 1>>, <<60, 130>>}

TradeIntents ==
    {Intent(FreshId, agent, side, q[1], q[2]) :
        agent \in TradeAgents, side \in {"BUY", "SELL"}, q \in TradeQuotes}

\* The fills of every clear() so far, as the ledger reads them (fill_id,
\* buy_agent_id, sell_agent_id, price, size).
RecordedFills ==
    [i \in 1..Len(emitted) |->
        LedgerFill(emitted[i].fill_id, emitted[i].buy_agent_id, emitted[i].sell_agent_id,
                   emitted[i].price, emitted[i].size)]

\* engine = AccountingEngine(); engine.process_fills(recorder.fills): the fills
\* of the run so far are given to an engine that has processed none.
PostFills ==
    /\ fill_log = <<>>
    /\ emitted # <<>>
    /\ ProcessFills(RecordedFills)

(***************************************************************************)
(* RNGManager                                                              *)
(***************************************************************************)
\* _hash_to_u64(text): the first 8 bytes of sha256(text), big endian, held as
\* four 16-bit words (most significant first); the table holds the digests of
\* the texts the model hashes.
HashToU64(text) ==
    ( "7:latent"    :> <<27670, 39663, 11318, 26883>> @@
      "7:latency"   :> <<47989, 1049, 11629, 33732>> @@
      "123:latent"  :> <<28757, 23621, 55709, 28337>> @@
      "123:latency" :> <<56905, 9755, 32959, 49623>> @@
      "7:0"         :> <<62975, 25047, 46387, 52595>> @@
      "7:1"         :> <<55200, 52967, 46622, 45283>> @@
      "7:2"         :> <<36238, 41845, 33140, 47372>> @@
      "123:0"       :> <<59795, 18054, 42116, 36431>> @@
      "123:1"       :> <<61410, 34081, 53034, 1084>> @@
      "123:2"       :> <<48778, 35132, 55722, 40166>> )[text]

\* Mutant of ChildSeed: the child seed is derived from the number of streams
\* the manager holds instead of the name.
ChildSeedByArrival(self, name) ==
    HashToU64(ToString(self.base_seed) \o ":" \o ToString(Cardinality(DOMAIN self.streams)))

\* RNGManager.child_seed(name), for a non-empty name:
\* _hash_to_u64(f"{self.base_seed}:{name}")
ChildSeed(self, name) == HashToU64(ToString(self.base_seed) \o ":" \o name)

\* random.Random(seed): a generator is held as its seed and the number of
\* values drawn from it, which together determine every later output.
Random(seed) == [seed |-> seed, pos |-> 0]

\* generator.random(): the value returned, named by the seed and its index in
\* the generator's output sequence, and the generator afterwards.
RandomValue(g) == <<g.seed, g.pos + 1>>

RandomStep(g) == [g EXCEPT !.pos = @ + 1]

\* Mutant of AfterDraw: the generators of one manager share their state, a draw
\* from one advances all of them.
AfterDrawShared(streams, name) == [n \in DOMAIN streams |-> RandomStep(streams[n])]

\* _streams after a draw from the generator stream(name) returned
AfterDraw(streams, name) == [streams EXCEPT ![name] = RandomStep(@)]

\* Mutant of WithStream: every call creates a new generator.
WithStreamReseeded(self, name) ==
    DictSet(self.streams, name, Random(ChildSeed(self, name)))

\* RNGManager.stream(name), its effect on _streams:
\* "if name not in self._streams: self._streams[name] = random.Random(...)"
WithStream(self, name) ==
    IF name \in DOMAIN self.streams
    THEN self.streams
    ELSE DictSet(self.streams, name, Random(ChildSeed(self, name)))

RngRet(op, mgr, name, raised, value) ==
    [op |-> op, mgr |-> mgr, name |-> name, raised |-> raised, value |-> value]

\* The first epoch of a manager that was not reset yet.
NotEnded == [ended |-> FALSE, log |-> <<>>]

\* RNGManager(base_seed=...) twice
RngInit ==
    /\ rngs \in [Managers -> {[base_seed |-> b, streams |-> <<>>] : b \in BaseSeeds}]
    /\ draw_log = [i \in Managers |-> <<>>]
    /\ rng_ret = RngRet("init", 0, "", FALSE, <<>>)
    /\ first_epoch = [i \in Managers |-> NotEnded]
    /\ recording \in BOOLEAN

\* RNGManager.child_seed(name)
RngChildSeed(i, name) ==
    /\ UNCHANGED <<schedVars, clobVars, acctVars, replayVars, rngs, draw_log, first_epoch, recording>>
    /\ rng_ret' = IF name = ""
                  THEN RngRet("child_seed", i, name, TRUE, <<>>)
                  ELSE RngRet("child_seed", i, name, FALSE, ChildSeed(rngs[i], name))

\* RNGManager.stream(name)
RngStream(i, name) ==
    /\ UNCHANGED <<schedVars, clobVars, acctVars, replayVars, draw_log, first_epoch, recording>>
    /\ IF name \notin DOMAIN rngs[i].streams /\ name = ""
       THEN /\ rng_ret' = RngRet("stream", i, name, TRUE, <<>>)
            /\ UNCHANGED rngs
       ELSE /\ rngs' = [rngs EXCEPT ![i].streams = WithStream(rngs[i], name)]
            /\ rng_ret' = RngRet("stream", i, name, FALSE, <<>>)

\* The number of draws taken from manager i since construction or reset.
DrawsOf(i) == Len(draw_log[i])

\* RNGManager.stream(name).random(), for a non-empty name
RngDraw(i, name) ==
    /\ UNCHANGED <<schedVars, clobVars, acctVars, replayVars, first_epoch, recording>>
    /\ DrawsOf(i) < MaxDraws
    /\ LET streams == WithStream(rngs[i], name)
           value == RandomValue(streams[name])
       IN  /\ rngs' = [rngs EXCEPT ![i].streams = AfterDraw(streams, name)]
           /\ draw_log' = [draw_log EXCEPT ![i] = Append(@, <<name, value>>)]
           /\ rng_ret' = RngRet("random", i, name, FALSE, value)

\* Mutant of AfterRngReset: the generators survive the reset.
AfterRngResetKept(streams) == streams

\* reset: self._streams.clear()
AfterRngReset(streams) == <<>>

\* RNGManager.reset()
RngReset(i) ==
    /\ UNCHANGED <<schedVars, clobVars, acctVars, replayVars, recording>>
    /\ rngs' = [rngs EXCEPT ![i].streams = AfterRngReset(@)]
    /\ first_epoch' = IF recording /\ ~first_epoch[i].ended
                      THEN [first_epoch EXCEPT ![i] = [ended |-> TRUE, log |-> draw_log[i]]]
                      ELSE first_epoch
    /\ draw_log' = [draw_log EXCEPT ![i] = <<>>]
    /\ rng_ret' = RngRet("reset", i, "", FALSE, <<>>)

(***************************************************************************)
(* replay_events                                                           *)
(***************************************************************************)
\* An event_id is held as the sequence of its characters, each a digit:
\* <<1, 0>> is "10".
EventIds == {<<2>>, <<1, 0>>}

\* Event(event_id, ts_ms, event_type, payload={"delta": delta}, seq_no); the
\* event_type plays no part in the replay.
ReplayEvent(event_id, ts_ms, seq_no, delta) ==
    [event_id |-> event_id, ts_ms |-> ts_ms, seq_no |-> seq_no, delta |-> delta]

LoggedEvents ==
    {ReplayEvent(id, ts, seq, delta) :
        id \in EventIds, ts \in {1, 2}, seq \in {1, 2}, delta \in {-2, 5}}

\* str < str: by the first character that differs, a proper prefix first
RECURSIVE StrLess(_, _)
StrLess(a, b) ==
    IF a = <<>> THEN b # <<>>
    ELSE IF b = <<>> THEN FALSE
    ELSE IF a[1] # b[1] THEN a[1] < b[1]
    ELSE StrLess(Tail(a), Tail(b))

\* tuple[int, int, str] < tuple[int, int, str]
KeyLess(a, b) ==
    \/ a[1] < b[1]
    \/ a[1] = b[1] /\ a[2] < b[2]
    \/ a[1] = b[1] /\ a[2] = b[2] /\ StrLess(a[3], b[3])

\* Mutant of event_sort_key: the event_id is left out of the key.
EventSortKeyWithoutId(event) == <<event.ts_ms, event.seq_no, <<>>>>

\* event_sort_key(event)
EventSortKey(event) == <<event.ts_ms, event.seq_no, event.event_id>>

\* sorted(events, key=event_sort_key): ascending by key, events of equal keys
\* in their input order (the sort is stable)
RECURSIVE Sorted(_)
Sorted(events) ==
    IF events = <<>> THEN <<>>
    ELSE LET rest == Sorted(SubSeq(events, 1, Len(events) - 1))
             e == events[Len(events)]
             n == Cardinality({k \in 1..Len(rest) :
                                 ~KeyLess(EventSortKey(e), EventSortKey(rest[k]))})
         IN  SubSeq(rest, 1, n) \o <<e>> \o SubSeq(rest, n + 1, Len(rest))

\* The reducers of the replay: "sum" is the reducer of
\* test_replay_reconstructs_state_from_unordered_log, state + delta; "shift"
\* depends on the order of the events, 10 * state + delta.
Reducer(name, state, event) ==
    IF name = "sum" THEN state + event.delta ELSE 10 * state + event.delta

\* The loop of replay_events over the sorted events
RECURSIVE ReplayLoop(_, _, _)
ReplayLoop(events, reducer, state) ==
    IF events = <<>> THEN state
    ELSE ReplayLoop(Tail(events), reducer, Reducer(reducer, state, Head(events)))

\* replay_events(events, reducer, initial_state)
ReplayEvents(events, reducer, initial_state) ==
    ReplayLoop(Sorted(events), reducer, initial_state)

ReplayInit ==
    /\ event_log = <<>>
    /\ replay_ret = [op |-> "init", events |-> <<>>, reducer |-> "", state |-> 0,
                     applied |-> <<>>]

\* The caller writes one more event to its log; a log is complete when it is
\* replayed.
LogAppend(event) ==
    /\ UNCHANGED <<schedVars, clobVars, acctVars, rngVars>>
    /\ replay_ret.op = "init"
    /\ Len(event_log) < MaxLog
    /\ event_log' = Append(event_log, event)
    /\ UNCHANGED replay_ret

\* replay_events(event_log, reducer, 0); applied is the sequence of events the
\* reducer was called with.
ReplayEventsCall(reducer) ==
    /\ UNCHANGED <<schedVars, clobVars, acctVars, rngVars>>
    /\ UNCHANGED event_log
    /\ replay_ret' = [op |-> "replay_events", events |-> event_log, reducer |-> reducer,
                      state |-> ReplayEvents(event_log, reducer, 0),
                      applied |-> Sorted(event_log)]

(***************************************************************************)
(* Properties of the RNGManager                                            *)
(***************************************************************************)
\* The values manager i drew from its stream of one name, in draw order.
RECURSIVE ValuesIn(_, _)
ValuesIn(log, name) ==
    IF log = <<>> THEN <<>>
    ELSE IF Head(log)[1] = name
    THEN <<Head(log)[2]>> \o ValuesIn(Tail(log), name)
    ELSE ValuesIn(Tail(log), name)

ValuesOf(i, name) == ValuesIn(draw_log[i], name)

\* The stream names of a log of draws, in draw order.
NamesOf(i) == [k \in 1..Len(draw_log[i]) |-> draw_log[i][k][1]]

AgreeOnCommonPrefix(a, b) == \A k \in 1..Min(Len(a), Len(b)) : a[k] = b[k]

\* C14: for two managers built from the same base_seed and every name,
\* child_seed returns the seed under which the other manager created its stream
\* of that name, the two streams of that name were seeded alike, and the values
\* drawn from them agree position by position, in whatever order the streams
\* were requested and drawn from.
C14_Reproducible ==
    \A i \in Managers, j \in Managers :
        rngs[i].base_seed = rngs[j].base_seed =>
            \A name \in StreamNames :
                /\ AgreeOnCommonPrefix(ValuesOf(i, name), ValuesOf(j, name))
                /\ name \in DOMAIN rngs[i].streams /\ name \in DOMAIN rngs[j].streams
                     => rngs[i].streams[name].seed = rngs[j].streams[name].seed
                /\ (/\ rng_ret.op = "child_seed" /\ ~rng_ret.raised
                    /\ rng_ret.mgr = i /\ rng_ret.name = name
                    /\ name \in DOMAIN rngs[j].streams)
                     => rng_ret.value = rngs[j].streams[name].seed

\* C14 witness: two managers of one base seed drew from the same two streams in
\* opposite order, and child_seed was then asked of the first.
C14_Witness ==
    /\ rngs[1].base_seed = rngs[2].base_seed
    /\ NamesOf(1) = <<"latent", "latency", "latent">>
    /\ NamesOf(2) = <<"latency", "latent", "latent">>
    /\ rng_ret.op = "child_seed"
    /\ rng_ret.mgr = 1
    /\ rng_ret.name = "latency"

\* The first n values of a generator.
RECURSIVE FirstValues(_, _)
FirstValues(g, n) ==
    IF n = 0 THEN <<>> ELSE <<RandomValue(g)>> \o FirstValues(RandomStep(g), n - 1)

\* The first n values of stream(name) of a manager of that base seed that draws
\* from no other stream.
Undisturbed(base_seed, name, n) ==
    FirstValues(Random(ChildSeed([base_seed |-> base_seed, streams |-> <<>>], name)), n)

\* C15: a draw from one stream leaves every other stream of the manager as it
\* was, and the values drawn from a stream are those an undisturbed stream of
\* that name and base seed yields, whatever draws were taken from the other
\* stream before or in between.
C15_StreamIsolation ==
    /\ [][rng_ret'.op = "random" =>
            \A name \in DOMAIN rngs[rng_ret'.mgr].streams \ {rng_ret'.name} :
                /\ name \in DOMAIN rngs'[rng_ret'.mgr].streams
                /\ rngs'[rng_ret'.mgr].streams[name] = rngs[rng_ret'.mgr].streams[name]]_rngVars
    /\ [](\A i \in Managers, name \in StreamNames :
            ValuesOf(i, name) =
                Undisturbed(rngs[i].base_seed, name, Len(ValuesOf(i, name))))

\* C15 witness: a draw from "latency" was taken between two draws from "latent"
\* in one manager, while the other manager of the same base seed drew from
\* "latent" only.
C15_Witness ==
    /\ rngs[1].base_seed = rngs[2].base_seed
    /\ NamesOf(1) = <<"latent", "latency", "latent">>
    /\ NamesOf(2) = <<"latent", "latent">>
    /\ DOMAIN rngs[2].streams = {"latent"}

\* C27: stream(name) on a manager that holds a generator under that name
\* returns that generator in the state it is in; a draw through a later
\* stream(name) call yields the next value of that generator and advances it,
\* so the k-th draw since the generator was created is its k-th output.
C27_StreamPersistence ==
    /\ [][\A i \in Managers : \A name \in DOMAIN rngs[i].streams :
            rng_ret'.mgr = i /\ rng_ret'.name = name =>
                /\ rng_ret'.op = "stream" =>
                     /\ ~rng_ret'.raised
                     /\ rngs'[i].streams = rngs[i].streams
                /\ rng_ret'.op = "random" =>
                     /\ rng_ret'.value = RandomValue(rngs[i].streams[name])
                     /\ rngs'[i].streams[name] = RandomStep(rngs[i].streams[name])]_rngVars
    /\ [](\A i \in Managers : \A name \in DOMAIN rngs[i].streams :
            /\ rngs[i].streams[name].pos = Len(ValuesOf(i, name))
            /\ \A k \in 1..Len(ValuesOf(i, name)) :
                  ValuesOf(i, name)[k] = <<rngs[i].streams[name].seed, k>>)

\* C27 witness: stream("latent") was called on a manager whose generator of
\* that name had already yielded two values, and left it at its third.
C27_Witness ==
    /\ rng_ret.op = "stream"
    /\ rng_ret.mgr = 1
    /\ rng_ret.name = "latent"
    /\ Len(ValuesOf(1, "latent")) = 2
    /\ rngs[1].streams["latent"].pos = 2

\* C28: after a reset, the values drawn from stream(name) are, position by
\* position, the values stream(name) yielded between the manager's construction
\* and its first reset, for every name and whatever was drawn from any stream
\* before the reset.
C28_ResetReplay ==
    \A i \in Managers, name \in StreamNames :
        first_epoch[i].ended =>
            AgreeOnCommonPrefix(ValuesIn(first_epoch[i].log, name), ValuesOf(i, name))

\* C28 witness: a manager drew one value from "latency" and two from "latent",
\* was reset, and then drew two values from "latent" and one from "latency".
C28_Witness ==
    /\ first_epoch[1].ended
    /\ Len(ValuesIn(first_epoch[1].log, "latent")) = 2
    /\ first_epoch[1].log[1][1] = "latency"
    /\ NamesOf(1) = <<"latent", "latent", "latency">>

(***************************************************************************)
(* Properties of replay_events                                             *)
(***************************************************************************)
\* Event a is not after event b in (ts_ms, seq_no, event_id) order.
NotAfter(a, b) ==
    \/ a.ts_ms < b.ts_ms
    \/ a.ts_ms = b.ts_ms /\ a.seq_no < b.seq_no
    \/ a.ts_ms = b.ts_ms /\ a.seq_no = b.seq_no /\ ~StrLess(b.event_id, a.event_id)

\* No two events of the log have the same (ts_ms, seq_no, event_id).
DistinctKeys(log) ==
    \A i \in 1..Len(log), j \in 1..Len(log) :
        i # j => \/ log[i].ts_ms # log[j].ts_ms
                 \/ log[i].seq_no # log[j].seq_no
                 \/ log[i].event_id # log[j].event_id

\* The orders in which a log of n events can be written.
Orders(n) == {f \in [1..n -> 1..n] : \A i \in 1..n, j \in 1..n : i # j => f[i] # f[j]}

Reordered(log, f) == [k \in 1..Len(log) |-> log[f[k]]]

\* C30: replay_events calls the reducer once per event of the log, in
\* ascending (ts_ms, seq_no, event_id) order; and when the keys of the log are
\* pairwise distinct, every reordering of the log replays to the same final
\* state.
C30_ReplayOrderIndependence ==
    replay_ret.op = "replay_events" =>
        LET log == replay_ret.events
            applied == replay_ret.applied
        IN  /\ \E f \in Orders(Len(log)) : applied = Reordered(log, f)
            /\ \A k \in 1..(Len(applied) - 1) : NotAfter(applied[k], applied[k + 1])
            /\ replay_ret.state = ReplayLoop(applied, replay_ret.reducer, 0)
            /\ DistinctKeys(log) =>
                 \A f \in Orders(Len(log)) :
                     ReplayEvents(Reordered(log, f), replay_ret.reducer, 0) = replay_ret.state

\* C30 witness: a log of three events with distinct keys, written in
\* descending key order, two of them differing in the event_id only ("10"
\* before "2"), was replayed with the order-dependent reducer.
C30_Witness ==
    /\ replay_ret.op = "replay_events"
    /\ replay_ret.reducer = "shift"
    /\ replay_ret.events = <<ReplayEvent(<<2>>, 2, 1, 5), ReplayEvent(<<1, 0>>, 2, 1, -2),
                             ReplayEvent(<<2>>, 1, 2, -2)>>
    /\ replay_ret.state = -215

\* The events pop_next delivered, in delivery order, as events of a log.  The
\* seq_nos of one scheduler are pairwise distinct, so event_sort_key orders
\* them before any event_id is compared; the id is the seq_no as one character.
DeliveredLog ==
    [k \in 1..Len(poplog) |->
        ReplayEvent(<<poplog[k].seq_no>>, PoppedTs(k), poplog[k].seq_no, 0)]

\* Every delivery so far came after the last admission.
DeliveredAfterAdmission ==
    \A k \in 1..Len(poplog) : poplog[k].admitted_before = Len(admitted)

\* C31: when events were admitted to the scheduler, under any priorities, and
\* then delivered by pop_next, sorting the delivered events by event_sort_key
\* yields them in the order of their delivery.
C31_ReplayEqualsDelivery ==
    DeliveredAfterAdmission => Sorted(DeliveredLog) = DeliveredLog

(***************************************************************************)
(* Properties of the AccountingEngine                                      *)
(***************************************************************************)
\* The exact sum of one field over all accounts.
RECURSIVE ExactSum(_, _)
ExactSum(keys, field) ==
    IF keys = {} THEN 0
    ELSE LET k == CHOOSE x \in keys : TRUE
         IN  accounts[k][field] + ExactSum(keys \ {k}, field)

\* A fill with price outside [0,1] or size <= 0.
PriceOutOfRange(fill) == fill.price < 0 \/ fill.price > PriceScale

InvalidFill(fill) == PriceOutOfRange(fill) \/ fill.size <= 0

\* The ledger a new engine holds after the valid fills of a log, the invalid
\* ones left out.
RECURSIVE ReplayValid(_)
ReplayValid(log) ==
    IF log = <<>> THEN [accounts |-> <<>>, keys |-> <<>>, processed_fills |-> 0]
    ELSE LET before == ReplayValid(SubSeq(log, 1, Len(log) - 1))
             fill == log[Len(log)]
             after == Applied(before.accounts, before.keys, fill)
         IN  IF InvalidFill(fill) THEN before
             ELSE [accounts |-> after.accounts, keys |-> after.keys,
                   processed_fills |-> before.processed_fills + 1]

\* C16: process_fill of a fill with price outside [0,1] or size <= 0 does not
\* raise, leaves every account and processed_fills unchanged and appends exactly
\* one violation with the fill's id and the code invalid_fill_price (also when
\* the size is invalid too) or invalid_fill_size; and the accounts and
\* processed_fills are always those the valid fills alone produce.
C16_InvalidFillPolicy ==
    /\ [][(acct_ret'.op = "process_fill" /\ InvalidFill(acct_ret'.fill)) =>
            /\ ~acct_ret'.raised
            /\ accounts' = accounts
            /\ account_keys' = account_keys
            /\ processed_fills' = processed_fills
            /\ violations' =
                 Append(violations,
                        [event_id |-> acct_ret'.fill.fill_id,
                         code |-> IF PriceOutOfRange(acct_ret'.fill)
                                  THEN "invalid_fill_price"
                                  ELSE "invalid_fill_size"])]_acctVars
    /\ [](/\ accounts = ReplayValid(fill_log).accounts
          /\ account_keys = ReplayValid(fill_log).keys
          /\ processed_fills = ReplayValid(fill_log).processed_fills)

\* C16 witness: a fill with price and size both invalid was skipped with one
\* invalid_fill_price violation, and the valid fill after it was applied.
C16_Witness ==
    /\ Len(fill_log) = 2
    /\ fill_log[1].price = 150
    /\ fill_log[1].size = 0
    /\ ~InvalidFill(fill_log[2])
    /\ violations = <<[event_id |-> 1, code |-> "invalid_fill_price"]>>
    /\ processed_fills = 1
    /\ acct_ret.op = "process_fill"

\* The sum of the values of a dict, exactly.
RECURSIVE ExactSumValues(_)
ExactSumValues(d) ==
    IF DOMAIN d = {} THEN 0
    ELSE LET k == CHOOSE x \in DOMAIN d : TRUE
         IN  d[k] + ExactSumValues([x \in DOMAIN d \ {k} |-> d[x]])

\* C17: whatever fills were processed, a settlement_pnl call with an outcome in
\* [0,1] returns values that sum to 0 (within the tolerance) and appends no
\* violation.
C17_SettlementZeroSum ==
    [][(acct_ret'.op = "settlement_pnl" /\ ~acct_ret'.raised) =>
          /\ Abs(ExactSumValues(acct_ret'.pnl)) <= Tolerance
          /\ Abs(SumValues(acct_ret'.pnl, account_keys)) <= Tolerance
          /\ violations' = violations]_acctVars

\* The balances of an agent before a call: those of its account, or the zero
\* balances of an account not created yet.
BalanceOf(accts, agent) ==
    IF agent \in DOMAIN accts THEN accts[agent] ELSE [cash |-> 0, inventory |-> 0]

\* C22: process_fill of a valid fill takes price*size from the buyer's cash and
\* adds size to the buyer's inventory, adds price*size to the seller's cash and
\* takes size from the seller's inventory (in the engine's arithmetic; both
\* legs one after the other on one account when buyer and seller are the same
\* agent), counts one more processed fill, creates a missing account of the
\* buyer or seller from zero balances and changes no other account.
C22_FillApplication ==
    [][(acct_ret'.op = "process_fill" /\ ~InvalidFill(acct_ret'.fill)) =>
          LET f == acct_ret'.fill
              b == f.buy_agent_id
              s == f.sell_agent_id
              n == Fl(f.price * f.size)
              ob == BalanceOf(accounts, b)
              os == BalanceOf(accounts, s)
          IN  /\ DOMAIN accounts' = DOMAIN accounts \cup {b, s}
              /\ processed_fills' = processed_fills + 1
              /\ \A a \in DOMAIN accounts \ {b, s} : accounts'[a] = accounts[a]
              /\ IF b # s
                 THEN /\ accounts'[b].cash = Fl(ob.cash - n)
                      /\ accounts'[b].inventory = Fl(ob.inventory + f.size)
                      /\ accounts'[s].cash = Fl(os.cash + n)
                      /\ accounts'[s].inventory = Fl(os.inventory - f.size)
                 ELSE /\ accounts'[b].cash = Fl(Fl(ob.cash - n) + n)
                      /\ accounts'[b].inventory = Fl(Fl(ob.inventory + f.size) - f.size)]_acctVars

\* C22 witness: the second valid fill was applied between an agent that had an
\* account and one that had none, a third account standing by.
C22_Witness ==
    /\ acct_ret.op = "process_fill"
    /\ Len(fill_log) = 2
    /\ processed_fills = 2
    /\ fill_log[1].buy_agent_id = 1 /\ fill_log[1].sell_agent_id = 2
    /\ fill_log[2].buy_agent_id = 3 /\ fill_log[2].sell_agent_id = 1
    /\ account_keys = <<1, 2, 3>>
    /\ accounts[2] = [cash |-> 110, inventory |-> -2]
    /\ accounts[1] = [cash |-> 90, inventory |-> 0]
    /\ accounts[3] = [cash |-> -200, inventory |-> 2]

\* s is t or a beginning of t.
IsPrefix(s, t) == Len(s) <= Len(t) /\ SubSeq(t, 1, Len(s)) = s

\* C24: the violation list is append-only: process_fill, process_fills,
\* mark_to_market, settlement_pnl and snapshot leave every recorded entry at
\* its position with its content and at most add entries after them; reset
\* empties the list.
C24_ViolationsAppendOnly ==
    [][IF acct_ret'.op = "reset" THEN violations' = <<>>
       ELSE IsPrefix(violations, violations')]_acctVars

\* C24 witness: a conservation drift recorded by process_fill and a settlement
\* drift recorded by settlement_pnl are in the list in this order, a snapshot
\* holds both, and the last call was mark_to_market.
C24_Witness ==
    /\ acct_ret.op = "mark_to_market"
    /\ Len(violations) = 2
    /\ violations[1].code = "cash_conservation_violation"
    /\ violations[2].code = "pnl_non_zero_sum"
    /\ snap.taken
    /\ snap.violations.value = violations

\* C25: snapshot() leaves the engine's accounts, violations and processed_fills
\* unchanged and returns their values of that moment; and the snapshot a caller
\* holds reads the same (balances, totals, violation list, processed_fills)
\* after every later process_fill, mark_to_market, settlement_pnl and reset.
C25_SnapshotIsolation ==
    [][/\ acct_ret'.op = "snapshot" =>
            /\ accounts' = accounts
            /\ account_keys' = account_keys
            /\ violations' = violations
            /\ processed_fills' = processed_fills
            /\ SnapView' = [taken |-> TRUE,
                            accounts |-> [accounts |-> accounts, keys |-> account_keys],
                            total_cash |-> TotalCash(accounts, account_keys),
                            total_inventory |-> TotalInventory(accounts, account_keys),
                            violations |-> violations,
                            processed_fills |-> processed_fills]
       /\ acct_ret'.op \in {"process_fill", "mark_to_market", "settlement_pnl", "reset"} =>
            SnapView' = SnapView]_acctVars

\* C25 witness: a snapshot was taken after one fill, with no violation; since
\* then a second fill and a settlement each recorded a violation in the
\* engine, and the snapshot still reads one fill and no violation.
C25_Witness ==
    /\ acct_ret.op = "settlement_pnl"
    /\ processed_fills = 2
    /\ Len(violations) = 2
    /\ SnapView.taken
    /\ SnapView.processed_fills = 1
    /\ SnapView.violations = <<>>
    /\ SnapView.accounts.keys = <<1, 2>>
    /\ SnapView.accounts.accounts[1] = [cash |-> -110, inventory |-> 2]
    /\ SnapView.total_cash = 0
    /\ account_keys = <<1, 2, 3>>

\* The id settlement_pnl tags a violation with, for the engine e.
SettlementTag(e) == IF e.last_fill_id = 0 THEN NoFillsTag ELSE e.last_fill_id

\* C26: after reset() the engine has no accounts, no violations and
\* processed_fills = 0; and at every moment the engine's snapshot, violations,
\* settlement tag and settlement results are those of a second engine that was
\* newly constructed at the moment of the last reset and given the same calls
\* since.
C26_ResetIsFresh ==
    /\ [][acct_ret'.op = "reset" =>
            /\ accounts' = <<>>
            /\ account_keys' = <<>>
            /\ violations' = <<>>
            /\ processed_fills' = 0]_acctVars
    /\ [](/\ TakeSnapshot(Engine) = TakeSnapshot(twin)
          /\ violations = twin.violations
          /\ SettlementTag(Engine) = SettlementTag(twin)
          /\ \A outcome \in Outcomes :
                /\ MarkToMarket(accounts, outcome) = MarkToMarket(twin.accounts, outcome)
                /\ SettlementViolations(Engine, outcome) = SettlementViolations(twin, outcome))

\* C26 witness: the snapshot held is from before a reset (its first violation
\* is the invalid fill of that time); since the reset two fills were applied,
\* under the ids 1 and 2 again, and the drifts of the second fill and of a
\* settlement were recorded with the id 2.
C26_Witness ==
    /\ acct_ret.op = "settlement_pnl"
    /\ snap.taken
    /\ Len(snap.violations.value) > 0
    /\ snap.violations.value[1].code = "invalid_fill_price"
    /\ snap.processed_fills = 1
    /\ processed_fills = 2
    /\ Len(fill_log) = 2
    /\ violations = <<[event_id |-> 2, code |-> "cash_conservation_violation"],
                      [event_id |-> 2, code |-> "pnl_non_zero_sum"]>>

OnlyValidFillsSoFar ==
    \A i \in 1..Len(violations) :
        violations[i].code \notin {"invalid_fill_price", "invalid_fill_size"}

\* C7: as long as only valid fills were processed, after every process_fill the
\* cash of all accounts sums to 0 and so does the inventory (within the
\* tolerance), as reported by the engine and exactly, and no violation is
\* recorded.
C7_LedgerConservation ==
    OnlyValidFillsSoFar =>
        /\ Abs(TotalCash(accounts, account_keys)) <= Tolerance
        /\ Abs(TotalInventory(accounts, account_keys)) <= Tolerance
        /\ Abs(ExactSum(DOMAIN accounts, "cash")) <= Tolerance
        /\ Abs(ExactSum(DOMAIN accounts, "inventory")) <= Tolerance
        /\ violations = <<>>

\* C36: under exact arithmetic, whatever fills (valid or not, a buyer selling to
\* itself included) and outcomes process_fill and settlement_pnl are called with,
\* every violation recorded has the code invalid_fill_price or invalid_fill_size.
C36_OnlyValidationViolations ==
    ~rounding =>
        \A i \in 1..Len(violations) :
            violations[i].code \in {"invalid_fill_price", "invalid_fill_size"}

\* C36 witness: an agent's valid fill with itself and a fill with a price above 1
\* were processed, settlement_pnl returned, and the one violation recorded is
\* that of the refused fill.
C36_Witness ==
    /\ ~rounding
    /\ acct_ret.op = "settlement_pnl" /\ ~acct_ret.raised
    /\ \E i \in 1..Len(fill_log) :
          /\ ValidateFill(fill_log[i]) = ""
          /\ fill_log[i].buy_agent_id = fill_log[i].sell_agent_id
    /\ \E i \in 1..Len(fill_log) : ValidateFill(fill_log[i]) = "invalid_fill_price"
    /\ Len(violations) = 1
    /\ processed_fills = 1

\* The fills processed so far, in the order p of their places.
Reprocessed(p) == AfterProcessFills(FreshEngine, [i \in 1..Len(fill_log) |-> fill_log[p[i]]])

AllValid == \A i \in 1..Len(fill_log) : ValidateFill(fill_log[i]) = ""

\* C38: under exact arithmetic, a set of valid fills leaves every agent with the
\* same cash and inventory, and the engine with the same processed_fills, in
\* whatever order process_fills is given them.
C38_LedgerOrderIndependence ==
    (~rounding /\ AllValid) =>
        \A p \in Permutations(1..Len(fill_log)) :
            LET e == Reprocessed(p)
            IN  /\ e.accounts = accounts
                /\ e.processed_fills = processed_fills

\* C38 witness: two valid fills at different prices with an agent in common
\* were processed, and the other order creates the accounts in another order.
C38_Witness ==
    /\ ~rounding /\ AllValid
    /\ Len(fill_log) = 2
    /\ fill_log[1].price # fill_log[2].price
    /\ fill_log[1].sell_agent_id = fill_log[2].buy_agent_id
    /\ Reprocessed(<<2, 1>>).keys # account_keys
    /\ accounts = Reprocessed(<<2, 1>>).accounts

(***************************************************************************)
(* Properties of the CLOBMechanism                                         *)
(***************************************************************************)
\* The fills the last call returned, when it was a clear.
LastFills == IF clob_ret.op = "clear" THEN clob_ret.fills ELSE <<>>

FillIndexes == 1..Len(LastFills)

\* The orders of one side with remaining size > 0, in a store of orders.
Live(store, side) ==
    {k \in DOMAIN store : store[k].side = side /\ store[k].remaining_size > 0}

\* The earlier orders of the level of order m, in a store of orders.
AheadInLevel(store, m) ==
    {k \in DOMAIN store :
        k < m /\ store[k].side = store[m].side /\ store[k].price = store[m].price}

\* C2: in every fill of a clear, both matched orders have remaining size > 0,
\* no bid with remaining size > 0 has a higher price than the matched bid and no
\* ask with remaining size > 0 has a lower price than the matched ask, whatever
\* the order of arrival.
C2_PricePriority ==
    \A i \in FillIndexes :
        LET f == LastFills[i]
        IN  /\ f.bid_seq \in Live(f.before, "BUY")
            /\ f.ask_seq \in Live(f.before, "SELL")
            /\ \A k \in Live(f.before, "BUY") : f.before[k].price <= f.before[f.bid_seq].price
            /\ \A k \in Live(f.before, "SELL") : f.before[k].price >= f.before[f.ask_seq].price

\* C2 witness: a fill went to a bid although a lower-priced bid that arrived
\* earlier was still waiting.
C2_Witness ==
    \E i \in FillIndexes :
        LET f == LastFills[i]
        IN  \E k \in Live(f.before, "BUY") :
                k < f.bid_seq /\ f.before[k].price < f.before[f.bid_seq].price

\* C3: an order is matched only when every order admitted before it at the
\* same side and price has no remaining size left (filled or canceled).
C3_TimePriority ==
    \A i \in FillIndexes :
        LET f == LastFills[i]
        IN  \A m \in {f.bid_seq, f.ask_seq} :
                \A k \in AheadInLevel(f.before, m) : f.before[k].remaining_size <= 0

\* C3 witness: one clear filled two orders of one level one after the other,
\* the earlier admitted one first.
C3_Witness ==
    \E i, j \in FillIndexes :
        /\ i < j
        /\ LastFills[i].bid_seq = LastFills[j].bid_seq
        /\ LastFills[i].ask_seq \in AheadInLevel(LastFills[j].before, LastFills[j].ask_seq)
        /\ LastFills[i].ask_seq \notin canceled

\* C4: no fill of a clear has, as its bid or its ask, an order whose cancel was
\* accepted before that clear.
C4_CanceledNeverFills ==
    \A i \in FillIndexes :
        LastFills[i].bid_seq \notin canceled /\ LastFills[i].ask_seq \notin canceled

\* C4 witness: a fill went to an order queued behind a canceled order of its
\* level that had remaining size when it was canceled.
C4_Witness ==
    \E i \in FillIndexes :
        LET f == LastFills[i]
        IN  \E m \in {f.bid_seq, f.ask_seq} :
                AheadInLevel(f.before, m) \cap canceled # {}

\* The orders as they were right after the i-th fill of a sequence of fills,
\* the last being followed by the store given.
AfterFill(fills, i, store) == IF i < Len(fills) THEN fills[i + 1].before ELSE store

\* An order that was filled in part and still has remaining size.
PartiallyFilled(store, k) ==
    store[k].remaining_size > 0 /\ store[k].remaining_size < intents[k].size

\* The fills, of a sequence of fills, that took an order of the level of order k.
FillsAtLevelOf(fills, k) ==
    {i \in 1..Len(fills) :
        \E m \in {fills[i].bid_seq, fills[i].ask_seq} :
            /\ fills[i].before[m].side = fills[i].before[k].side
            /\ fills[i].before[m].price = fills[i].before[k].price}

\* C18: the size of each fill is the minimum of the two matched orders'
\* remaining sizes at match time, both are decremented by exactly that size and
\* no other order changes; an order filled in part has no order with remaining
\* size ahead of it in its level's queue, and the next fill any clear gives to
\* its level goes to it.
C18_MatchSizeAndPartialFills ==
    /\ [](\A i \in FillIndexes :
            LET f == LastFills[i]
                after == AfterFill(LastFills, i, orders)
            IN  /\ f.size = Min(f.before[f.bid_seq].remaining_size,
                                f.before[f.ask_seq].remaining_size)
                /\ f.size > 0
                /\ \A k \in DOMAIN f.before :
                      after[k].remaining_size =
                          IF k \in {f.bid_seq, f.ask_seq}
                          THEN f.before[k].remaining_size - f.size
                          ELSE f.before[k].remaining_size)
    /\ [](\A k \in DOMAIN orders :
            PartiallyFilled(orders, k) =>
                LET level == IF orders[k].side = "BUY" THEN bids[orders[k].price]
                             ELSE asks[orders[k].price]
                IN  \E n \in 1..Len(level) :
                        /\ level[n] = k
                        /\ \A j \in 1..(n - 1) : orders[level[j]].remaining_size <= 0)
    /\ [][clob_ret'.op = "clear" =>
            \A k \in DOMAIN orders :
                (PartiallyFilled(orders, k) /\ FillsAtLevelOf(clob_ret'.fills, k) # {}) =>
                    LET first == CHOOSE i \in FillsAtLevelOf(clob_ret'.fills, k) :
                                     \A j \in FillsAtLevelOf(clob_ret'.fills, k) : i <= j
                    IN  k \in {clob_ret'.fills[first].bid_seq,
                               clob_ret'.fills[first].ask_seq}]_clobVars

\* C18 witness: an order filled in part by an earlier clear was, in a later
\* clear, the first matched against a counter-order admitted after it.
C18_Witness ==
    /\ LastFills # <<>>
    /\ LET f == LastFills[1]
       IN  \E k \in {f.bid_seq, f.ask_seq} :
               /\ f.before[k].remaining_size < intents[k].size
               /\ \A m \in {f.bid_seq, f.ask_seq} \ {k} : m > k /\ m = Len(intents)
               /\ f.size = f.before[k].remaining_size
               /\ f.size < f.before[f.bid_seq + f.ask_seq - k].remaining_size

ValidationErrors ==
    {"ts_ms must be non-negative", "price must be finite and in [0,1]",
     "size must be finite and > 0"}

\* C19: a submit that passes validation under an order_id the book holds (its
\* order resting, or canceled and not yet pruned) raises "duplicate order id"
\* and leaves the book unchanged: the levels, the heaps, the index, the order
\* already held (price, remaining size, place in its queue) and the next
\* seq_no; a submit that passes validation under any other id is admitted.
C19_DuplicateOrderId ==
    [][(clob_ret'.op = "submit" /\ clob_ret'.error \notin ValidationErrors) =>
          IF clob_ret'.order_id \in DOMAIN orders_by_id
          THEN /\ clob_ret'.error = "duplicate order id"
               /\ ~clob_ret'.accepted
               /\ UNCHANGED bookVars
               /\ UNCHANGED intents
          ELSE /\ clob_ret'.error = ""
               /\ clob_ret'.accepted
               /\ next_order_seq' = next_order_seq + 1]_clobVars

\* C19 witness: a submit under the id of a resting order of the other agent was
\* refused as a duplicate while that order rested.
C19_Witness ==
    /\ clob_ret.op = "submit"
    /\ clob_ret.error = "duplicate order id"
    /\ clob_ret.order_id \in DOMAIN orders_by_id
    /\ LET k == orders_by_id[clob_ret.order_id]
       IN  /\ orders[k].remaining_size > 0
           /\ orders[k].agent_id # clob_ret.agent_id
           /\ bids[orders[k].price] = <<k>>

\* C20: a cancel of an order_id the book does not hold, or by an agent other
\* than the order's owner, raises nothing and leaves the whole book unchanged;
\* a cancel by the owner raises nothing, sets the remaining size of that order
\* to 0 and changes no other order, no level, no heap and no index entry.
C20_CancelFrame ==
    [][clob_ret'.op = "cancel" =>
          /\ clob_ret'.error = ""
          /\ IF \/ clob_ret'.order_id \notin DOMAIN orders_by_id
                \/ orders[orders_by_id[clob_ret'.order_id]].agent_id # clob_ret'.agent_id
             THEN /\ ~clob_ret'.accepted
                  /\ UNCHANGED bookVars
                  /\ UNCHANGED canceled
             ELSE /\ clob_ret'.accepted
                  /\ orders' = [orders EXCEPT
                                  ![orders_by_id[clob_ret'.order_id]].remaining_size = 0]
                  /\ UNCHANGED <<bids, asks, bid_heap, ask_heap, orders_by_id,
                                 next_order_seq, next_fill_seq>>]_clobVars

\* C20 witness: a cancel by an agent who is not the owner was ignored; the
\* targeted order still rests with its full size, across a counter-order that
\* the next clear will match it with.
C20_Witness ==
    /\ clob_ret.op = "cancel"
    /\ ~clob_ret.accepted
    /\ clob_ret.order_id \in DOMAIN orders_by_id
    /\ LET k == orders_by_id[clob_ret.order_id]
       IN  /\ orders[k].agent_id # clob_ret.agent_id
           /\ orders[k].remaining_size = intents[k].size
           /\ \E m \in DOMAIN orders :
                 /\ orders[m].side # orders[k].side
                 /\ orders[m].remaining_size > 0

\* C21: the fills of a clear carry, in emission order, the ids next_fill_seq,
\* next_fill_seq + 1, ... and the counter moves by the number of fills emitted
\* (not at all when nothing matched); no other call moves it, and it starts at
\* 1: over all clear calls the n-th fill emitted has id n ("fill-n").
C21_FillIdentifiers ==
    /\ [][IF clob_ret'.op = "clear"
          THEN /\ \A i \in 1..Len(clob_ret'.fills) :
                    clob_ret'.fills[i].fill_id = next_fill_seq + i - 1
               /\ next_fill_seq' = next_fill_seq + Len(clob_ret'.fills)
          ELSE next_fill_seq' = next_fill_seq]_clobVars
    /\ [](/\ next_fill_seq >= 1
          /\ \A i \in FillIndexes : LastFills[i].fill_id = next_fill_seq - Len(LastFills) + i - 1
          /\ \A i \in FillIndexes, j \in FillIndexes :
                i < j => LastFills[i].fill_id < LastFills[j].fill_id)

\* C21 witness: a clear emitted the single fill 2, fill 1 having been emitted
\* by an earlier clear.
C21_Witness ==
    /\ Len(LastFills) = 1
    /\ LastFills[1].fill_id = 2
    /\ next_fill_seq = 3
    /\ Len(intents) = 3
    /\ canceled = {}

\* The best prices among the orders with remaining size.
Crossed(store) ==
    \E b \in Live(store, "BUY"), a \in Live(store, "SELL") : store[b].price >= store[a].price

\* C23: a submit or a cancel returns no fill, leaves next_fill_seq alone and
\* changes the remaining size of no order but the one an accepted cancel names,
\* also when the submitted order crosses the book, which then stays crossed
\* until a clear; every fill is returned by a clear.
C23_FillsOnlyByClear ==
    /\ [][clob_ret'.op \in {"submit", "cancel"} =>
            /\ clob_ret'.fills = <<>>
            /\ next_fill_seq' = next_fill_seq
            /\ \A k \in DOMAIN orders :
                  \/ orders'[k] = orders[k]
                  \/ /\ clob_ret'.op = "cancel"
                     /\ clob_ret'.accepted
                     /\ clob_ret'.order_id \in DOMAIN orders_by_id
                     /\ k = orders_by_id[clob_ret'.order_id]
            /\ (clob_ret'.op = "submit" /\ clob_ret'.accepted /\ Crossed(orders'))
                  => /\ Crossed(orders)
                        \/ orders'[Len(orders')].seq_no \in
                              Live(orders', "BUY") \cup Live(orders', "SELL")
                     /\ SubSeq(orders', 1, Len(orders)) = orders]_clobVars
    /\ [](clob_ret.fills # <<>> => clob_ret.op = "clear")

\* C23 witness: an accepted submit crossed the book (the new bid is priced at or
\* above a resting ask) and every order still has its full size.
C23_Witness ==
    /\ clob_ret.op = "submit"
    /\ clob_ret.accepted
    /\ Crossed(orders)
    /\ ~Crossed(SubSeq(orders, 1, Len(orders) - 1))
    /\ orders[Len(orders)].side = "BUY"
    /\ \A k \in DOMAIN orders : orders[k].remaining_size = intents[k].size
    /\ next_fill_seq = 1

\* The emitted fills that took the order of one seq_no.
FillsOf(k) == {i \in 1..Len(emitted) : k \in {emitted[i].bid_seq, emitted[i].ask_seq}}

\* The total size of a set of emitted fills.
RECURSIVE TotalSize(_)
TotalSize(is) ==
    IF is = {} THEN 0
    ELSE LET i == CHOOSE x \in is : TRUE
         IN  emitted[i].size + TotalSize(is \ {i})

FilledSize(k) == TotalSize(FillsOf(k))

\* C33: no order's remaining size is negative, the fills an order took part in
\* add up to at most its submitted size, and for an order whose cancel was never
\* accepted the submitted size is the remaining size plus the size of its fills.
C33_SizeConservation ==
    \A k \in DOMAIN orders :
        /\ orders[k].remaining_size >= 0
        /\ FilledSize(k) <= intents[k].size
        /\ k \notin canceled => intents[k].size = orders[k].remaining_size + FilledSize(k)

\* C33 witness: one order was filled in part and then canceled, and another,
\* never canceled, was filled completely by two fills.
C33_Witness ==
    /\ \E k \in canceled : 0 < FilledSize(k) /\ FilledSize(k) < intents[k].size
    /\ \E j \in DOMAIN orders \ canceled :
          /\ Cardinality(FillsOf(j)) = 2
          /\ orders[j].remaining_size = 0

\* The fills of the book were given to the ledger.
FillsPosted == fill_log # <<>> /\ fill_log = RecordedFills

\* C34: every fill emitted by clear has a size above 0 and a price between the
\* price of its ask and the price of its bid and within [0,1]; and once the fills
\* of a run of submit, cancel and clear are given to the ledger, no violation is
\* recorded and the cash and the inventory of all accounts sum to 0.
C34_BookFillsAreValidInput ==
    /\ \A i \in 1..Len(emitted) :
          /\ emitted[i].size > 0
          /\ intents[emitted[i].ask_seq].price <= emitted[i].price
          /\ emitted[i].price <= intents[emitted[i].bid_seq].price
          /\ 0 <= emitted[i].price /\ emitted[i].price <= PriceScale
    /\ FillsPosted =>
          /\ violations = <<>>
          /\ Abs(TotalCash(accounts, account_keys)) <= Tolerance
          /\ Abs(TotalInventory(accounts, account_keys)) <= Tolerance
          /\ Abs(ExactSum(DOMAIN accounts, "cash")) <= Tolerance
          /\ Abs(ExactSum(DOMAIN accounts, "inventory")) <= Tolerance

\* The orders that rest in the book with some size left.
LiveOrders == {k \in DOMAIN orders : orders[k].remaining_size > 0}

\* What a clear() called now would return.
ClearNow == ClearLoop(Book, <<>>, next_fill_seq, ClearTs)

\* A clear() called now returns after at most one loop iteration for each live
\* order and one more, and each of its fills takes all that was left of its bid
\* or of its ask, which the call leaves with nothing.
ClearEnds ==
    /\ ClearNow.iterations <= Cardinality(LiveOrders) + 1
    /\ \A i \in 1..Len(ClearNow.fills) :
          LET fill == ClearNow.fills[i]
          IN  /\ \/ fill.before[fill.bid_seq].remaining_size = fill.size
                 \/ fill.before[fill.ask_seq].remaining_size = fill.size
              /\ \/ ClearNow.book.orders[fill.bid_seq].remaining_size = 0
                 \/ ClearNow.book.orders[fill.ask_seq].remaining_size = 0

\* The claim as stated: clear() ends as above and returns at most (live orders
\* - 1) fills, from every reachable book.
C35_ClearFillsBelowLiveOrders ==
    ClearEnds /\ Len(ClearNow.fills) <= Cardinality(LiveOrders) - 1

\* C35: from every reachable book, canceled orders at the best levels included,
\* clear() returns after finitely many iterations, each of its fills depletes at
\* least one of the two matched orders, and it returns no fill when fewer than
\* two orders are live and at most (live orders - 1) fills otherwise.
C35_ClearTerminates ==
    /\ ClearEnds
    /\ Cardinality(LiveOrders) < 2 => ClearNow.fills = <<>>
    /\ Cardinality(LiveOrders) >= 2 => Len(ClearNow.fills) <= Cardinality(LiveOrders) - 1

\* C35 witness: the only order of the best bid level was canceled, two orders
\* are live, and a clear() called now passes the canceled order and returns one
\* fill, the most it may.
C35_Witness ==
    /\ Cardinality(LiveOrders) = 2
    /\ Len(ClearNow.fills) = 1
    /\ \E k \in canceled :
          /\ orders[k].side = "BUY"
          /\ bid_heap # <<>> /\ HeapKey(bid_heap[1], TRUE) = orders[k].price
          /\ \A j \in LiveOrders : orders[j].side = "BUY" => orders[j].price < orders[k].price

\* The live order of a side that price-time priority puts first: the best price,
\* and the lowest seq_no at that price (0 when the side has no live order).
FirstLive(side) ==
    LET live == {k \in LiveOrders : orders[k].side = side}
        better(a, b) == IF side = "BUY" THEN orders[a].price > orders[b].price
                        ELSE orders[a].price < orders[b].price
    IN  IF live = {} THEN 0
        ELSE CHOOSE k \in live :
                 \A j \in live \ {k} :
                     better(k, j) \/ (orders[k].price = orders[j].price /\ k < j)

\* One agent holds the first bid and the first ask, and they cross.
SelfCross ==
    /\ FirstLive("BUY") # 0 /\ FirstLive("SELL") # 0
    /\ orders[FirstLive("BUY")].agent_id = orders[FirstLive("SELL")].agent_id
    /\ orders[FirstLive("BUY")].price >= orders[FirstLive("SELL")].price

\* The engine after the first n of the book's fills were processed.
PostedUpTo(n) == AfterProcessFills(FreshEngine, SubSeq(RecordedFills, 1, n))

\* The fills of the book, by their place in the run, whose buyer is the seller.
SelfFills == {i \in 1..Len(emitted) : emitted[i].buy_agent_id = emitted[i].sell_agent_id}

\* C37: when the first bid and the first ask of the book are one agent's and
\* cross, clear() matches them in a fill whose buyer is its seller; and when the
\* ledger processes such a fill the agent's cash and inventory stay as they
\* were, processed_fills grows by one and no violation is recorded.
C37_SelfMatch ==
    /\ SelfCross =>
          /\ ClearNow.fills # <<>>
          /\ ClearNow.fills[1].bid_seq = FirstLive("BUY")
          /\ ClearNow.fills[1].ask_seq = FirstLive("SELL")
          /\ ClearNow.fills[1].buy_agent_id = ClearNow.fills[1].sell_agent_id
    /\ FillsPosted =>
          \A i \in SelfFills :
              LET agent == emitted[i].buy_agent_id
              IN  /\ BalanceOf(PostedUpTo(i).accounts, agent)
                        = BalanceOf(PostedUpTo(i - 1).accounts, agent)
                  /\ PostedUpTo(i).processed_fills = PostedUpTo(i - 1).processed_fills + 1
                  /\ PostedUpTo(i).violations = PostedUpTo(i - 1).violations

\* The last call was a clear() that returned.
Cleared == clob_ret.op = "clear" /\ clob_ret.error = ""

\* C39: a clear() called right after a clear() returned, no submit or cancel in
\* between, returns no fill, leaves next_fill_seq where it was and leaves every
\* order with the remaining size it had.
C39_ClearIdempotent ==
    /\ [](Cleared =>
            /\ ClearNow.fills = <<>>
            /\ ClearNow.next_fill_seq = next_fill_seq
            /\ \A k \in DOMAIN orders :
                  ClearNow.book.orders[k].remaining_size = orders[k].remaining_size)
    /\ [][(Cleared /\ clob_ret'.op = "clear" /\ clob_ret'.error = "") =>
              /\ clob_ret'.fills = <<>>
              /\ emitted' = emitted
              /\ next_fill_seq' = next_fill_seq
              /\ orders' = orders]_clobVars

\* C39 witness: a clear() returned two fills and left an order live; a second
\* clear() called now finds nothing to match.
C39_Witness ==
    /\ Cleared
    /\ Len(LastFills) = 2
    /\ LiveOrders # {}
    /\ ClearNow.fills = <<>>

\* The order ids whose order, in a store of orders, has no remaining size left
\* (FILLED or CANCELED), and those whose order still has some (RESTING or
\* PARTIALLY_FILLED).
TerminalIds(store) == {store[k].order_id : k \in {x \in DOMAIN store : store[x].remaining_size <= 0}}

RestingIds(store) == {store[k].order_id : k \in {x \in DOMAIN store : store[x].remaining_size > 0}}

\* The order ids of the two orders of a fill.
FillIds(f) == {f.before[f.bid_seq].order_id, f.before[f.ask_seq].order_id}

\* C13: an order's remaining size only goes down (RESTING, PARTIALLY_FILLED,
\* then FILLED or CANCELED), and once the order of an order_id is fully filled
\* or canceled, no submit, cancel or clear leaves that order_id resting on the
\* book and no later clear returns a fill of that order_id.
C13_OrderLifeCycle ==
    [][/\ \A k \in DOMAIN orders : orders'[k].remaining_size <= orders[k].remaining_size
       /\ TerminalIds(orders) \cap RestingIds(orders') = {}
       /\ \A i \in 1..Len(clob_ret'.fills) :
             FillIds(clob_ret'.fills[i]) \cap TerminalIds(orders) = {}]_clobVars

\* The book of test_crossed_book_clears_until_uncrossed, cleared once after
\* the three submits and with no cancel.
CrossedBookCleared ==
    /\ intents = << Intent(1, 1, "SELL", 40, 2), Intent(2, 2, "BUY", 60, 5),
                    Intent(3, 3, "SELL", 55, 4) >>
    /\ canceled = {}
    /\ clob_ret.op = "clear"
    /\ next_fill_seq - Len(clob_ret.fills) = 1

\* The total remaining size on one side of the book.
RECURSIVE SumRemaining(_, _)
SumRemaining(store, ks) ==
    IF ks = {} THEN 0
    ELSE LET k == CHOOSE x \in ks : TRUE
         IN  store[k].remaining_size + SumRemaining(store, ks \ {k})

Resting(side) == SumRemaining(orders, Live(orders, side))

CrossedBookFills ==
    /\ Len(clob_ret.fills) = 2
    /\ clob_ret.fills[1].size = 2 /\ clob_ret.fills[1].price = 40
    /\ clob_ret.fills[2].size = 3 /\ clob_ret.fills[2].price = 60

\* C5 as stated: the clear emits (2 @ 0.40) then (3 @ 0.60) and leaves 1 unit
\* resting on the buy side.
C5_AsStated == CrossedBookCleared => (CrossedBookFills /\ Resting("BUY") = 1)

\* C5 as amended: the clear emits (2 @ 0.40) then (3 @ 0.60); the buy of 5 is
\* filled completely and 1 unit is left resting on the sell side, at 0.55.
C5_CrossedBookResolution ==
    CrossedBookCleared =>
        /\ CrossedBookFills
        /\ Resting("BUY") = 0
        /\ Resting("SELL") = 1
        /\ Live(orders, "SELL") = {3}

\* C5 witness: the crossed book of the test was cleared.
C5_Witness == CrossedBookCleared /\ Len(clob_ret.fills) = 2

\* C6: every fill is priced at the limit price of the matched order with the
\* lower seq_no.
C6_OlderOrderSetsPrice ==
    \A i \in FillIndexes :
        LET f == LastFills[i]
        IN  f.price = f.before[Min(f.bid_seq, f.ask_seq)].price

\* C6 witness: a fill at the bid's price, above the ask's, the bid being older,
\* and in the same clear a fill at the ask's price, the ask being older.
C6_Witness ==
    /\ \E i \in FillIndexes :
          LET f == LastFills[i]
          IN  /\ f.bid_seq < f.ask_seq
              /\ f.before[f.bid_seq].price > f.before[f.ask_seq].price
              /\ f.price = f.before[f.bid_seq].price
    /\ \E i \in FillIndexes :
          LET f == LastFills[i]
          IN  /\ f.ask_seq < f.bid_seq
              /\ f.before[f.bid_seq].price > f.before[f.ask_seq].price
              /\ f.price = f.before[f.ask_seq].price

\* C8: when clear has returned, one side has no order with remaining size > 0
\* or every bid with remaining size > 0 is priced strictly below every ask with
\* remaining size > 0.
C8_ClearUncrossesBook ==
    (clob_ret.op = "clear" /\ clob_ret.error = "") =>
        \A b \in Live(orders, "BUY") : \A a \in Live(orders, "SELL") :
            orders[b].price < orders[a].price

\* C8 witness: a clear matched several crossing orders and returned with
\* orders still resting.
C8_Witness ==
    /\ clob_ret.op = "clear"
    /\ Len(clob_ret.fills) >= 2
    /\ Live(orders, "BUY") \cup Live(orders, "SELL") # {}

\* C9: a submit refused by validation changes nothing in the book (levels,
\* heaps, id index, orders, next seq_no), and no intent with ts_ms < 0, a price
\* outside [0,1] or a size <= 0 is ever admitted.
C9_InvalidOrderRejected ==
    /\ [][(clob_ret'.op = "submit" /\ clob_ret'.error \in ValidationErrors)
            => UNCHANGED bookVars]_vars
    /\ [](\A i \in 1..Len(intents) :
            /\ intents[i].ts_ms >= 0
            /\ intents[i].price >= 0 /\ intents[i].price <= PriceScale
            /\ intents[i].size > 0)

\* C9 witness: a submit with size 0 was refused by a book that holds orders.
C9_Witness ==
    /\ clob_ret.op = "submit"
    /\ clob_ret.error = "size must be finite and > 0"
    /\ DOMAIN orders_by_id # {}

Init == SchedInit /\ ClobInit /\ AcctInit /\ RngInit /\ ReplayInit

\* Both RNG managers built from base seed 7, first epochs not recorded.
RngAtSeven == ~recording /\ \A i \in Managers : rngs[i].base_seed = 7

SchedNext ==
    \/ \E ts \in TsValues, p \in Priorities : Schedule(ts, p)
    \/ PopNext

\* The scheduler from any start_ms; the book and the ledger are left as
\* constructed.
SchedStart == Init /\ ~rounding /\ RngAtSeven

SchedSpec == SchedStart /\ [][SchedNext]_vars

\* The scheduler with its queries, events of two priorities.
QueryNext ==
    \/ \E ts \in TsValues, p \in {0, 1} : Schedule(ts, p)
    \/ PopNext
    \/ HasPending
    \/ PeekNextTs

QuerySpec == SchedStart /\ [][QueryNext]_vars

ClobNext ==
    \/ \E intent \in BookIntents : Submit(intent)
    \/ \E intent \in OwnerCancels : Cancel(intent)
    \/ Clear(ClearTs)

\* The components as constructed, the scheduler with the default start_ms.
InitAtZero == Init /\ now_ms = 0 /\ ~rounding /\ RngAtSeven

\* The order book under accepted calls; the scheduler and the ledger are left as
\* constructed.
ClobSpec == InitAtZero /\ [][ClobNext]_vars

EdgeNext ==
    \/ \E intent \in EdgeIntents \cup InvalidIntents : Submit(intent)
    \/ \E intent \in EdgeCancels : Cancel(intent)
    \/ \E ts \in {-1, ClearTs} : Clear(ts)

\* The order book under refused and ignored calls and reused order ids.
EdgeSpec == InitAtZero /\ [][EdgeNext]_vars

AcctNext ==
    \/ \E fill \in ValidFills \cup InvalidFills : ProcessFill(fill)
    \/ \E outcome \in Outcomes \cup {150} : SettlementPnl(outcome)

\* The ledger under exact arithmetic.
AcctSpec == InitAtZero /\ [][AcctNext]_vars

FloatStart == Init /\ now_ms = 0 /\ rounding /\ RngAtSeven

\* The ledger under float arithmetic.
AcctFloatSpec == FloatStart /\ [][AcctNext]_vars

\* The order book with its fills posted to the ledger.
TradeNext ==
    \/ \E intent \in TradeIntents : Submit(intent)
    \/ \E intent \in OwnerCancels : Cancel(intent)
    \/ Clear(ClearTs)
    \/ PostFills

\* The book and the ledger under float arithmetic.
TradeSpec == FloatStart /\ [][TradeNext]_vars

\* Every operation of the accounting engine, under float arithmetic.
LedgerNext ==
    \/ \E fill \in FewFills : ProcessFill(fill)
    \/ \E fills \in FillLists : ProcessFills(fills)
    \/ \E mark_price \in {55} : MarkToMarketCall(mark_price)
    \/ \E outcome \in {0, 150} : SettlementPnl(outcome)
    \/ Snapshot
    \/ Reset

LedgerSpec == FloatStart /\ [][LedgerNext]_vars

RngNext ==
    \/ \E i \in Managers, name \in StreamNames \cup {""} : RngChildSeed(i, name)
    \/ \E i \in Managers, name \in StreamNames \cup {""} : RngStream(i, name)
    \/ \E i \in Managers, name \in StreamNames : RngDraw(i, name)
    \/ \E i \in Managers : RngReset(i)

RngStart == Init /\ now_ms = 0 /\ ~rounding /\ ~recording

\* Two RNG managers side by side, from equal or different base seeds.
RngSpec == RngStart /\ [][RngNext]_vars

\* The calls on one manager.
ReplayNext ==
    \/ \E name \in StreamNames : RngStream(1, name)
    \/ \E name \in StreamNames : RngDraw(1, name)
    \/ RngReset(1)

ReplayStart == Init /\ now_ms = 0 /\ ~rounding /\ recording

\* One RNG manager through resets, its first epoch recorded.
RngReplaySpec == ReplayStart /\ [][ReplayNext]_vars

EventReplayNext ==
    \/ \E event \in LoggedEvents : LogAppend(event)
    \/ \E reducer \in {"sum", "shift"} : ReplayEventsCall(reducer)

\* Event logs written in any order and replayed.
EventReplaySpec == InitAtZero /\ [][EventReplayNext]_vars

Next == SchedNext \/ QueryNext \/ ClobNext \/ EdgeNext \/ TradeNext \/ AcctNext \/ LedgerNext \/ RngNext \/ ReplayNext
        \/ EventReplayNext

Spec == Init /\ [][Next]_vars

====
